---- MODULE Spec2Model ----
(***************************************************************************)
(* Verification model of the Antigravity multi-account request router and  *)
(* the streaming protocol translator.                                      *)
(*                                                                         *)
(*   SpecStream : streamSSEResponse (cloudcode/sse-streamer)               *)
(*   SpecLimits : account-manager/rate-limits.js                           *)
(*   SpecSelect : HybridStrategy (account-manager/strategies)              *)
(*                                                                         *)
(* The three specifications share one set of variables; each leaves the    *)
(* variables of the other two subsystems at their initial values.          *)
(***************************************************************************)
EXTENDS Integers, Sequences, FiniteSets, TLC

VARIABLES
    \* ---- streamSSEResponse: the generator's locals ----
    hasEmittedStart,
    blockIndex,
    currentBlockType,
    currentThinkingSignature,
    inputTokens,
    outputTokens,
    cacheReadTokens,
    stopReason,
    emitted,            \* the events yielded so far, in order
    outcome,            \* "reading" | "completed" | "EmptyResponseError"
    signatureCache,     \* format/signature-cache: tool-call id -> signature
    thinkingCache,      \* format/signature-cache: cached thinking signatures
    generated,          \* number of tool ids drawn from crypto.randomBytes
    consumed,           \* history: the content parts of the chunks read so far
    lines,              \* history: the complete lines read, where they are recorded
    wire,               \* the response body, how far it is read, and the carried partial line
    \* ---- the batch translation: sse-parser, response-converter ----
    batch,              \* the accumulators of one translation, and its result
    \* ---- the account pool (AccountManager) ----
    accounts,           \* the account records, in array order
    now,                \* Date.now(), in ms
    returned,           \* what the last account-manager call returned (a boolean as 0 or 1)
    ops,                \* account-manager calls and clock steps so far, when they are counted
    \* ---- HybridStrategy and its trackers ----
    health,             \* HealthTracker: the score of each account
    buckets,            \* TokenBucketTracker: {tokens, lastUpdated} of each account
    selection,          \* what the last selectAccount call returned, and (history) the tokens the
                        \* selected account had before the call
    requests,           \* selectAccount calls made so far
    \* ---- cloudcode/model-api: the model-validity cache ----
    modelCache,         \* {validModels, lastFetched, fetchPromise}
    inFlight,           \* the fetchAvailableModels calls that have not settled
    fetches,            \* fetchAvailableModels calls started by populateModelCache
    callers,            \* the isValidModel calls: where each one stands
    \* ---- transport/antigravity.api: one callGenerateContent invocation ----
    endpoints,          \* resolveEndpoints(endpointPreference)
    endpointIndex,      \* position of the outer loop, from 1
    attempt,            \* the inner loop's counter
    upstreamCalls,      \* history: requests sent to each endpoint
    sleeps,             \* history: the delays slept, in order
    lastError,
    callState           \* "idle" | "requesting" | "sleeping" | "returned" | "thrown"

sseVars == <<hasEmittedStart, blockIndex, currentBlockType,
             currentThinkingSignature, inputTokens, outputTokens,
             cacheReadTokens, stopReason, emitted, outcome,
             signatureCache, thinkingCache, generated, consumed, lines, wire>>

streamVars == <<sseVars, batch>>

poolVars == <<accounts, now, returned, ops>>

strategyVars == <<health, buckets, selection, requests>>

cacheVars == <<modelCache, inFlight, fetches, callers>>

apiVars == <<endpoints, endpointIndex, attempt, upstreamCalls, sleeps,
             lastError, callState>>

vars == <<streamVars, poolVars, strategyVars, cacheVars, apiVars>>

(***************************************************************************)
(* Bounds of the model.                                                    *)
(***************************************************************************)
\* Content parts read over one whole stream.
MaxParts == 3

(***************************************************************************)
(* JavaScript values.                                                      *)
(***************************************************************************)
Null == "null"
Undefined == "undefined"

\* constants: MIN_SIGNATURE_LENGTH (imported at sse-streamer line 8).
MIN_SIGNATURE_LENGTH == 50

\* Continuation signatures: an absent one is '' after String(x || '').
SigA == "AAAAAAAAAAAAAAAAAAAAAAAAAAAAAAAAAAAAAAAAAAAAAAAAAA"
SigB == "BBBBBBBBBBBBBBBBBBBBBBBBBBBBBBBBBBBBBBBBBBBBBBBBBBB"
SigShort == "SSSSSSSSSSSSSSSSSSSSSSSSSSSSSSSSSSSSSSSSSSSSSSSSS"

(***************************************************************************)
(* Upstream chunks.  A part is what JSON.parse gives for one element of    *)
(* candidates[0].content.parts; an absent object field is the empty        *)
(* sequence, a present one a one-element sequence.                         *)
(***************************************************************************)
Part(obj, thought, text, sig, fc, img) ==
    [isObject |-> obj, thought |-> thought, text |-> text,
     thoughtSignature |-> sig, functionCall |-> fc, inlineData |-> img]

FunctionCall(id, name, args) == [id |-> id, name |-> name, args |-> args]

ThoughtLong  == Part(TRUE, TRUE, "plan", SigA, <<>>, <<>>)
ThoughtShort == Part(TRUE, TRUE, "", SigShort, <<>>, <<>>)
ThoughtAgain == Part(TRUE, TRUE, "more", SigB, <<>>, <<>>)
TextPart     == Part(TRUE, FALSE, "hello", "", <<>>, <<>>)
EmptyText    == Part(TRUE, FALSE, "", "", <<>>, <<>>)
CallIdSig    == Part(TRUE, FALSE, Undefined, SigB,
                     <<FunctionCall("call_1", "search", "{\"q\":1}")>>, <<>>)
CallNoIdSig  == Part(TRUE, FALSE, Undefined, SigA,
                     <<FunctionCall("", "search", Undefined)>>, <<>>)
CallIdShort  == Part(TRUE, FALSE, Undefined, SigShort,
                     <<FunctionCall("call_2", "fetch", Undefined)>>, <<>>)
CallNoSig    == Part(TRUE, FALSE, Undefined, "",
                     <<FunctionCall("", "fetch", "{}")>>, <<>>)
ImagePart    == Part(TRUE, FALSE, Undefined, "", <<>>,
                     <<[mimeType |-> "image/png", data |-> "iVBOR"]>>)
NonObject    == Part(FALSE, FALSE, Undefined, "", <<>>, <<>>)

PartSet == {ThoughtLong, ThoughtShort, ThoughtAgain, TextPart, EmptyText,
            CallIdSig, CallNoIdSig, CallIdShort, CallNoSig, ImagePart,
            NonObject}

\* usageMetadata of a chunk; 0 stands for an absent, zero or non-numeric
\* count (Number(x) || old keeps the old value for all three).
UsageSet == {[promptTokenCount |-> 0, candidatesTokenCount |-> 0,
              cachedContentTokenCount |-> 0],
             [promptTokenCount |-> 10, candidatesTokenCount |-> 5,
              cachedContentTokenCount |-> 4]}

\* candidates[0].finishReason; "" stands for a value that is not a string.
FinishSet == {"", "STOP", "MAX_TOKENS", "SAFETY"}

RECURSIVE SeqsUpTo(_, _)
SeqsUpTo(S, n) ==
    IF n = 0 THEN {<<>>}
    ELSE LET shorter == SeqsUpTo(S, n - 1)
         IN  shorter \cup {Append(q, x) : q \in {r \in shorter : Len(r) = n - 1}, x \in S}

(***************************************************************************)
(* Events yielded by streamSSEResponse.                                    *)
(***************************************************************************)
MessageStart(inTok, cacheTok) ==
    [type |-> "message_start", input_tokens |-> inTok - cacheTok,
     output_tokens |-> 0, cache_read_input_tokens |-> cacheTok]

BlockStart(i, block) ==
    [type |-> "content_block_start", index |-> i, content_block |-> block]

BlockDelta(i, kind, payload) ==
    [type |-> "content_block_delta", index |-> i, delta |-> kind,
     payload |-> payload]

BlockStop(i) == [type |-> "content_block_stop", index |-> i]

MessageDelta(reason, outTok, cacheTok) ==
    [type |-> "message_delta", stop_reason |-> reason,
     output_tokens |-> outTok, cache_read_input_tokens |-> cacheTok]

MessageStop == [type |-> "message_stop"]

(***************************************************************************)
(* The translator state threaded through one chunk.                        *)
(***************************************************************************)
StreamState ==
    [hasEmittedStart |-> hasEmittedStart, blockIndex |-> blockIndex,
     currentBlockType |-> currentBlockType,
     currentThinkingSignature |-> currentThinkingSignature,
     inputTokens |-> inputTokens, outputTokens |-> outputTokens,
     cacheReadTokens |-> cacheReadTokens, stopReason |-> stopReason,
     emitted |-> emitted, signatureCache |-> signatureCache,
     thinkingCache |-> thinkingCache, generated |-> generated]

Yield(s, ev) == [s EXCEPT !.emitted = Append(@, ev)]

\* signature-cache: cacheSignature(toolUseId, signature)
cacheSignature(cache, toolId, signature) ==
    (toolId :> signature) @@ cache

\* signature-cache: cacheThinkingSignature(signature, modelFamily)
cacheThinkingSignature(cache, signature) == cache \cup {signature}

\* JSON.stringify(functionCall.args || {}); an object is held as its JSON text
Stringify(args) == IF args = Undefined THEN "{}" ELSE args

\* `toolu_${crypto.randomBytes(12).toString('hex')}`: a fresh id per draw
RandomToolId(n) == "toolu_" \o ToString(n)

\* signature && signature.length >= MIN_SIGNATURE_LENGTH
KeepsAnySignature(signature) == signature # ""

IsUsableSignature(signature) ==
    signature # "" /\ Len(signature) >= MIN_SIGNATURE_LENGTH

FlushNothing(s) == s

\* if (currentBlockType === 'thinking' && currentThinkingSignature) { yield signature_delta; ... = '' }
FlushSignature(s) ==
    IF s.currentBlockType = "thinking" /\ s.currentThinkingSignature # ""
    THEN [Yield(s, BlockDelta(s.blockIndex, "signature_delta",
                              s.currentThinkingSignature))
            EXCEPT !.currentThinkingSignature = ""]
    ELSE s

\* if (currentBlockType !== null) { yield content_block_stop; blockIndex++ }
CloseBlock(s) ==
    IF s.currentBlockType # Null
    THEN [Yield(s, BlockStop(s.blockIndex)) EXCEPT !.blockIndex = @ + 1]
    ELSE s

ThoughtBranchFirstSignature(s, part) ==
    LET text == part.text
        signature == part.thoughtSignature
        opened ==
            IF s.currentBlockType # "thinking"
            THEN LET c == CloseBlock(s)
                 IN  Yield([c EXCEPT !.currentBlockType = "thinking",
                                     !.currentThinkingSignature = ""],
                           BlockStart(c.blockIndex, [type |-> "thinking"]))
            ELSE s
        signed ==
            IF IsUsableSignature(signature) /\ opened.currentThinkingSignature = ""
            THEN [opened EXCEPT
                    !.currentThinkingSignature = signature,
                    !.thinkingCache = cacheThinkingSignature(@, signature)]
            ELSE opened
    IN  Yield(signed, BlockDelta(signed.blockIndex, "thinking_delta",
                                 IF text = Undefined THEN "" ELSE text))

ThoughtBranch(s, part) ==
    LET text == part.text
        signature == part.thoughtSignature
        opened ==
            IF s.currentBlockType # "thinking"
            THEN LET c == CloseBlock(s)
                 IN  Yield([c EXCEPT !.currentBlockType = "thinking",
                                     !.currentThinkingSignature = ""],
                           BlockStart(c.blockIndex, [type |-> "thinking"]))
            ELSE s
        signed ==
            IF IsUsableSignature(signature)
            THEN [opened EXCEPT
                    !.currentThinkingSignature = signature,
                    !.thinkingCache = cacheThinkingSignature(@, signature)]
            ELSE opened
    IN  Yield(signed, BlockDelta(signed.blockIndex, "thinking_delta",
                                 IF text = Undefined THEN "" ELSE text))

TextBranchWithoutClosing(s, part) ==
    IF part.text = ""
    THEN s
    ELSE LET opened ==
                 IF s.currentBlockType # "text"
                 THEN Yield([s EXCEPT !.currentBlockType = "text"],
                            BlockStart(s.blockIndex, [type |-> "text"]))
                 ELSE s
         IN  Yield(opened, BlockDelta(opened.blockIndex, "text_delta", part.text))

TextBranch(s, part) ==
    IF part.text = ""
    THEN s
    ELSE LET opened ==
                 IF s.currentBlockType # "text"
                 THEN LET c == CloseBlock(FlushSignature(s))
                      IN  Yield([c EXCEPT !.currentBlockType = "text"],
                                BlockStart(c.blockIndex, [type |-> "text"]))
                 ELSE s
         IN  Yield(opened, BlockDelta(opened.blockIndex, "text_delta", part.text))

FunctionCallBranch(s, part) ==
    LET functionCallSignature == part.thoughtSignature
        functionCall == part.functionCall[1]
        c == CloseBlock(FlushSignature(s))
        drawn == functionCall.id = ""
        toolId == IF drawn THEN RandomToolId(c.generated + 1) ELSE functionCall.id
        attach == IsUsableSignature(functionCallSignature)
        toolUseBlock ==
            [type |-> "tool_use", id |-> toolId, name |-> functionCall.name,
             thoughtSignature |-> IF attach THEN <<functionCallSignature>> ELSE <<>>]
        t == [c EXCEPT !.currentBlockType = "tool_use",
                       !.stopReason = "tool_use",
                       !.generated = IF drawn THEN @ + 1 ELSE @,
                       !.signatureCache =
                           IF attach
                           THEN cacheSignature(@, toolId, functionCallSignature)
                           ELSE @]
    IN  Yield(Yield(t, BlockStart(t.blockIndex, toolUseBlock)),
              BlockDelta(t.blockIndex, "input_json_delta",
                         Stringify(functionCall.args)))

InlineDataBranchKeepingIndex(s, part) ==
    LET c == CloseBlock(FlushSignature(s))
        started == Yield(c, BlockStart(c.blockIndex,
                        [type |-> "image",
                         media_type |-> part.inlineData[1].mimeType,
                         data |-> part.inlineData[1].data]))
    IN  [Yield(started, BlockStop(c.blockIndex))
            EXCEPT !.currentBlockType = Null]

InlineDataBranch(s, part) ==
    LET c == CloseBlock(FlushSignature(s))
        started == Yield(c, BlockStart(c.blockIndex,
                        [type |-> "image",
                         media_type |-> part.inlineData[1].mimeType,
                         data |-> part.inlineData[1].data]))
    IN  [Yield(started, BlockStop(c.blockIndex))
            EXCEPT !.blockIndex = @ + 1, !.currentBlockType = Null]

\* the body of `for (const part of parts)`
ProcessPart(s, part) ==
    IF ~part.isObject THEN s
    ELSE IF part.thought THEN ThoughtBranch(s, part)
    ELSE IF part.text # Undefined THEN TextBranch(s, part)
    ELSE IF part.functionCall # <<>> THEN FunctionCallBranch(s, part)
    ELSE IF part.inlineData # <<>> THEN InlineDataBranch(s, part)
    ELSE s

RECURSIVE ProcessParts(_, _)
ProcessParts(s, parts) ==
    IF parts = <<>> THEN s
    ELSE ProcessParts(ProcessPart(s, Head(parts)), Tail(parts))

\* inputTokens = Number(usage.promptTokenCount) || inputTokens; ...
ExtractUsage(s, usage) ==
    [s EXCEPT
       !.inputTokens = IF usage.promptTokenCount # 0
                       THEN usage.promptTokenCount ELSE @,
       !.outputTokens = IF usage.candidatesTokenCount # 0
                        THEN usage.candidatesTokenCount ELSE @,
       !.cacheReadTokens = IF usage.cachedContentTokenCount # 0
                           THEN usage.cachedContentTokenCount ELSE @]

EmitMessageStartAlways(s, parts) ==
    IF ~s.hasEmittedStart
    THEN Yield([s EXCEPT !.hasEmittedStart = TRUE],
               MessageStart(s.inputTokens, s.cacheReadTokens))
    ELSE s

\* if (!hasEmittedStart && parts.length > 0) { hasEmittedStart = true; yield message_start }
EmitMessageStart(s, parts) ==
    IF ~s.hasEmittedStart /\ Len(parts) > 0
    THEN Yield([s EXCEPT !.hasEmittedStart = TRUE],
               MessageStart(s.inputTokens, s.cacheReadTokens))
    ELSE s

CheckFinishReasonLastWins(s, finishReason) ==
    IF finishReason = "MAX_TOKENS" THEN [s EXCEPT !.stopReason = "max_tokens"]
    ELSE IF finishReason = "STOP" THEN [s EXCEPT !.stopReason = "end_turn"]
    ELSE s

\* if (typeof finishReason === 'string' && !stopReason) { ... }
CheckFinishReason(s, finishReason) ==
    IF finishReason # "" /\ s.stopReason = Null
    THEN IF finishReason = "MAX_TOKENS" THEN [s EXCEPT !.stopReason = "max_tokens"]
         ELSE IF finishReason = "STOP" THEN [s EXCEPT !.stopReason = "end_turn"]
         ELSE s
    ELSE s

TranslateChunkUsageAfterStart(s, usage, parts, finishReason) ==
    CheckFinishReason(
        ProcessParts(ExtractUsage(EmitMessageStart(s, parts), usage), parts),
        finishReason)

\* the try block run for one parsed data: line
TranslateChunk(s, usage, parts, finishReason) ==
    CheckFinishReason(
        ProcessParts(EmitMessageStart(ExtractUsage(s, usage), parts), parts),
        finishReason)

FinishStreamLeavingBlockOpen(s) ==
    IF ~s.hasEmittedStart
    THEN [state |-> s, outcome |-> "EmptyResponseError"]
    ELSE [state |-> Yield(Yield(s, MessageDelta(IF s.stopReason # Null
                                                THEN s.stopReason ELSE "end_turn",
                                                s.outputTokens, s.cacheReadTokens)),
                          MessageStop),
          outcome |-> "completed"]

\* the tail of the generator, after the read loop
FinishStream(s) ==
    IF ~s.hasEmittedStart
    THEN [state |-> s, outcome |-> "EmptyResponseError"]
    ELSE LET closed ==
                 IF s.currentBlockType # Null
                 THEN LET f == IF s.currentBlockType = "thinking"
                                  /\ s.currentThinkingSignature # ""
                               THEN Yield(s, BlockDelta(s.blockIndex, "signature_delta",
                                                        s.currentThinkingSignature))
                               ELSE s
                      IN  Yield(f, BlockStop(f.blockIndex))
                 ELSE s
             reason == IF closed.stopReason # Null THEN closed.stopReason
                       ELSE "end_turn"
         IN  [state |-> Yield(Yield(closed,
                                    MessageDelta(reason, closed.outputTokens,
                                                 closed.cacheReadTokens)),
                              MessageStop),
              outcome |-> "completed"]

Install(s) ==
    /\ hasEmittedStart' = s.hasEmittedStart
    /\ blockIndex' = s.blockIndex
    /\ currentBlockType' = s.currentBlockType
    /\ currentThinkingSignature' = s.currentThinkingSignature
    /\ inputTokens' = s.inputTokens
    /\ outputTokens' = s.outputTokens
    /\ cacheReadTokens' = s.cacheReadTokens
    /\ stopReason' = s.stopReason
    /\ emitted' = s.emitted
    /\ signatureCache' = s.signatureCache
    /\ thinkingCache' = s.thinkingCache
    /\ generated' = s.generated

(***************************************************************************)
(* The batch translation: parseThinkingSSEResponse (cloudcode/sse-parser), *)
(* parseThinkingSseToGoogle (transport/antigravity.api) and                *)
(* convertGoogleToAnthropic (format/response-converter).                   *)
(***************************************************************************)
MaxBatchLines == 2

\* obj[key] in JavaScript: the value in a one-element sequence, <<>> when the
\* object has no such property
Property(obj, key) == IF key \in DOMAIN obj THEN <<obj[key]>> ELSE <<>>

\* {candidates: [{content: {parts}, finishReason}], usageMetadata}
GoogleResponse(parts, finishReason, usageMetadata) ==
    [candidates |-> <<[content |-> [parts |-> parts],
                       finishReason |-> finishReason]>>,
     usageMetadata |-> usageMetadata]

\* the same response inside the {response: ...} wrapper
Wrapped(response) == [response |-> response]

\* const response = googleResponse.response || googleResponse; return response
convertGoogleToAnthropic(googleResponse) ==
    IF "response" \in DOMAIN googleResponse
    THEN googleResponse.response
    ELSE googleResponse

Parsers == {"parseThinkingSSEResponse", "parseThinkingSseToGoogle"}

BatchIdle ==
    [pc |-> "idle", parser |-> "", accumulatedThinkingText |-> "",
     accumulatedThinkingSignature |-> "", accumulatedText |-> "",
     finalParts |-> <<>>, usageMetadata |-> <<>>, finishReason |-> "STOP",
     given |-> <<>>, result |-> <<>>, threw |-> ""]

flushThinking(b) ==
    IF b.accumulatedThinkingText # ""
    THEN [b EXCEPT !.finalParts =
                       Append(@, Part(TRUE, TRUE, b.accumulatedThinkingText,
                                      b.accumulatedThinkingSignature, <<>>, <<>>)),
                   !.accumulatedThinkingText = "",
                   !.accumulatedThinkingSignature = ""]
    ELSE b

flushTextAlways(b) ==
    [b EXCEPT !.finalParts =
                  Append(@, Part(TRUE, FALSE, b.accumulatedText, "", <<>>, <<>>)),
              !.accumulatedText = ""]

flushText(b) ==
    IF b.accumulatedText # ""
    THEN [b EXCEPT !.finalParts =
                       Append(@, Part(TRUE, FALSE, b.accumulatedText, "", <<>>, <<>>)),
                   !.accumulatedText = ""]
    ELSE b

\* String(part.text || '') / getString(part.text) ?? ''
TextOf(part) == IF part.text = Undefined THEN "" ELSE part.text

\* one part of a chunk, in either parser
AccumulatePart(b, part) ==
    IF ~part.isObject THEN b
    ELSE IF part.thought
    THEN LET f == flushText(b)
         IN  [f EXCEPT !.accumulatedThinkingText = @ \o TextOf(part),
                       !.accumulatedThinkingSignature =
                           IF part.thoughtSignature # ""
                           THEN part.thoughtSignature ELSE @]
    ELSE IF part.functionCall # <<>>
    THEN [flushText(flushThinking(b)) EXCEPT !.finalParts = Append(@, part)]
    ELSE IF part.text # Undefined
    THEN IF part.text = "" THEN b
         ELSE [flushThinking(b) EXCEPT !.accumulatedText = @ \o part.text]
    ELSE IF part.inlineData # <<>>
    THEN [flushText(flushThinking(b)) EXCEPT !.finalParts = Append(@, part)]
    ELSE b

RECURSIVE AccumulateParts(_, _)
AccumulateParts(b, parts) ==
    IF parts = <<>> THEN b
    ELSE AccumulateParts(AccumulatePart(b, Head(parts)), Tail(parts))

\* the try block of either parser for one parsed data: line
AccumulateChunk(b, usage, parts, finishReason) ==
    LET u == [b EXCEPT !.usageMetadata = <<usage>>]
        f == IF finishReason # "" THEN [u EXCEPT !.finishReason = finishReason]
             ELSE u
    IN  AccumulateParts(f, parts)

\* after the last line: the flushes, and the response that is returned
FinishBatch(b) ==
    LET f == flushText(flushThinking(b))
        accumulatedResponse ==
            GoogleResponse(f.finalParts, f.finishReason, f.usageMetadata)
    IN  [f EXCEPT !.pc = "returned",
                  !.result = IF f.parser = "parseThinkingSSEResponse"
                             THEN <<convertGoogleToAnthropic(accumulatedResponse)>>
                             ELSE <<accumulatedResponse>>]

\* no response handed to the translator: nothing to read, nothing carried
NoWire == [called |-> FALSE, response |-> <<>>, pos |-> 0, buffer |-> <<>>,
           pending |-> <<>>, reads |-> 0]

(***************************************************************************)
(* Actions of the stream.                                                  *)
(***************************************************************************)
StreamInit ==
    /\ hasEmittedStart = FALSE
    /\ blockIndex = 0
    /\ currentBlockType = Null
    /\ currentThinkingSignature = ""
    /\ inputTokens = 0
    /\ outputTokens = 0
    /\ cacheReadTokens = 0
    /\ stopReason = Null
    /\ emitted = <<>>
    /\ outcome = "reading"
    /\ signatureCache = <<>>
    /\ thinkingCache = {}
    /\ generated = 0
    /\ consumed = <<>>
    /\ lines = <<>>
    /\ wire = NoWire
    /\ batch = BatchIdle

\* A complete line that is not translated: no data: prefix, an empty
\* payload, or a payload JSON.parse rejects (caught and logged).
SkippedLine ==
    /\ outcome = "reading"
    /\ \E kind \in {"no data: prefix", "empty payload", "malformed JSON"} :
           UNCHANGED vars

\* A data: line carrying one JSON chunk.
DataLine ==
    /\ outcome = "reading"
    /\ \E parts \in SeqsUpTo(PartSet, MaxParts - Len(consumed)),
          usage \in UsageSet, finishReason \in FinishSet :
           /\ Install(TranslateChunk(StreamState, usage, parts, finishReason))
           /\ consumed' = consumed \o parts
           /\ UNCHANGED <<outcome, lines, wire, batch, poolVars, strategyVars, cacheVars, apiVars>>

\* reader.read() reports done.
EndOfStream ==
    /\ outcome = "reading"
    /\ LET r == FinishStream(StreamState)
       IN  /\ Install(r.state)
           /\ outcome' = r.outcome
    /\ UNCHANGED <<consumed, lines, wire, batch, poolVars, strategyVars, cacheVars, apiVars>>

StreamNext == SkippedLine \/ DataLine \/ EndOfStream

(***************************************************************************)
(* The read loop line by line, with every complete line kept in `lines`.   *)
(***************************************************************************)
MaxLines == 3

\* what the loop body makes of a line
LineKinds == {"data", "malformed JSON", "no data: prefix", "empty payload"}

Line(kind, usage, parts, finishReason) ==
    [kind |-> kind, usage |-> usage, parts |-> parts,
     finishReason |-> finishReason]

NoUsage == [promptTokenCount |-> 0, candidatesTokenCount |-> 0,
            cachedContentTokenCount |-> 0]

SomeUsage == [promptTokenCount |-> 10, candidatesTokenCount |-> 5,
              cachedContentTokenCount |-> 4]

\* a line the loop passes over carries nothing the translator reads
SkippedLineOf(kind) == Line(kind, NoUsage, <<>>, "")

LineParts == {<<>>, <<TextPart>>, <<ThoughtLong>>, <<CallIdSig>>}

\* the prompt token count alone, before the cached count is reported
EarlyUsage == [promptTokenCount |-> 10, candidatesTokenCount |-> 0,
               cachedContentTokenCount |-> 0]

LineSet ==
    {SkippedLineOf(kind) : kind \in LineKinds \ {"data"}}
        \cup {Line("data", SomeUsage, parts, finishReason) :
                  parts \in LineParts, finishReason \in FinishSet}
        \cup {Line("data", EarlyUsage, <<>>, ""),
              Line("data", NoUsage, <<TextPart>>, "")}

SkipLineClosingBlock(s) == [s EXCEPT !.currentBlockType = Null]

\* `continue` on a line without data: or with an empty payload, and the catch
\* block for a payload JSON.parse rejects: a warning is logged
SkipLine(s) == s

\* the body of `for (const line of lines)` for one line
ProcessLine(s, line) ==
    IF line.kind = "data"
    THEN TranslateChunk(s, line.usage, line.parts, line.finishReason)
    ELSE SkipLine(s)

\* One complete line, of any kind, goes through the loop body.
ReadLine ==
    /\ outcome = "reading"
    /\ Len(lines) < MaxLines
    /\ \E line \in LineSet :
           /\ Install(ProcessLine(StreamState, line))
           /\ lines' = Append(lines, line)
           /\ consumed' = consumed \o line.parts
           /\ UNCHANGED <<outcome, wire, batch, poolVars, strategyVars, cacheVars, apiVars>>

LinesNext == ReadLine \/ EndOfStream

(***************************************************************************)
(* Actions of the batch translation.                                       *)
(***************************************************************************)
BatchPartSeqs ==
    {<<>>, <<TextPart>>, <<EmptyText>>, <<ThoughtLong>>, <<CallIdSig>>,
     <<ImagePart>>, <<NonObject>>, <<ThoughtLong, TextPart>>,
     <<TextPart, TextPart>>, <<ThoughtShort>>}

\* convertGoogleToAnthropic(googleResponse, model) on a response that did not
\* come as SSE
ConvertResponse ==
    \E parts \in BatchPartSeqs, finishReason \in {"STOP", "MAX_TOKENS"},
       wrapped \in BOOLEAN :
        /\ batch.pc = "idle"
        /\ LET response == GoogleResponse(parts, finishReason, <<SomeUsage>>)
           IN  batch' = [batch EXCEPT
                   !.pc = "returned",
                   !.parser = "convertGoogleToAnthropic",
                   !.given = <<Line("data", SomeUsage, parts, finishReason)>>,
                   !.result = <<convertGoogleToAnthropic(
                                    IF wrapped THEN Wrapped(response)
                                    ELSE response)>>]
        /\ UNCHANGED <<sseVars, poolVars, strategyVars, cacheVars, apiVars>>

\* either parser is called: parseThinkingSSEResponse throws when the response
\* has no body
StartBatch ==
    \E parser \in Parsers, hasBody \in BOOLEAN :
        /\ batch.pc = "idle"
        /\ hasBody \/ parser = "parseThinkingSSEResponse"
        /\ batch' = IF hasBody
                    THEN [batch EXCEPT !.pc = "reading", !.parser = parser]
                    ELSE [batch EXCEPT !.pc = "thrown", !.parser = parser,
                                       !.threw = "Error"]
        /\ UNCHANGED <<sseVars, poolVars, strategyVars, cacheVars, apiVars>>

\* one line of the SSE body goes through the loop body
BatchLine ==
    \E line \in {SkippedLineOf(kind) : kind \in LineKinds \ {"data"}}
                    \cup {Line("data", SomeUsage, parts, finishReason) :
                             parts \in BatchPartSeqs,
                             finishReason \in {"", "MAX_TOKENS"}} :
        /\ batch.pc = "reading"
        /\ Len(batch.given) < MaxBatchLines
        /\ batch' = IF line.kind = "data"
                    THEN [AccumulateChunk(batch, line.usage, line.parts,
                                          line.finishReason)
                             EXCEPT !.given = Append(@, line)]
                    ELSE [batch EXCEPT !.given = Append(@, line)]
        /\ UNCHANGED <<sseVars, poolVars, strategyVars, cacheVars, apiVars>>

\* the body is exhausted
EndOfBatch ==
    /\ batch.pc = "reading"
    /\ batch' = FinishBatch(batch)
    /\ UNCHANGED <<sseVars, poolVars, strategyVars, cacheVars, apiVars>>

BatchNext == ConvertResponse \/ StartBatch \/ BatchLine \/ EndOfBatch

(***************************************************************************)
(* The account pool: account-manager/rate-limits.js.                       *)
(*                                                                         *)
(* Time is Date.now() in ms; the clock of the model moves in steps of      *)
(* 5000 ms.  A number field that holds null or undefined holds NullNum.    *)
(***************************************************************************)
NullNum == -1

Min(a, b) == IF a <= b THEN a ELSE b
Max(a, b) == IF a >= b THEN a ELSE b

\* ToNumber of a number-or-null operand of <, <=, >
Num(x) == IF x = NullNum THEN 0 ELSE x

\* constants: DEFAULT_COOLDOWN_MS (imported at rate-limits.js line 8)
DEFAULT_COOLDOWN_MS == 10000

Models == {"m1", "m2"}

\* a modelId argument that is null, undefined or ''
NoModel == ""

\* the configured accounts, in array order; a pool is a prefix of them
PoolEmails == <<"a@example.com", "b@example.com">>

Email(i) == PoolEmails[i]

\* an email no account of the pool has
UnknownEmail == "nobody@example.com"

\* modelRateLimits[modelId]: no entry, or {isRateLimited, resetTime, actualResetMs}
NoLimit ==
    [present |-> FALSE, isRateLimited |-> FALSE, resetTime |-> NullNum,
     actualResetMs |-> NullNum]

LimitEntry(limited, resetTime, actualResetMs) ==
    [present |-> TRUE, isRateLimited |-> limited, resetTime |-> resetTime,
     actualResetMs |-> actualResetMs]

\* account.quota.models[modelId]: remainingFraction in percent (NullNum when
\* null or not reported) and whether a resetTime came with it
NoQuota == [remainingFraction |-> NullNum, hasResetTime |-> FALSE]

\* An account as loaded from configuration.
NewAccount(i, enabled) ==
    [email |-> Email(i), isInvalid |-> FALSE, enabled |-> enabled,
     consecutiveFailures |-> 0,
     coolingDownUntil |-> NullNum, cooldownReason |-> Null,
     modelRateLimits |-> [m \in Models |-> NoLimit],
     lastUsed |-> 0,
     quota |-> [m \in Models |-> NoQuota],
     quotaThreshold |-> NullNum,
     modelQuotaThresholds |-> [m \in Models |-> NullNum]]

Indices(accs) == 1..Len(accs)

\* accounts.find(a => a.email === email): its index, 0 when there is none
FindAccount(accs, email) ==
    IF \E i \in Indices(accs) : accs[i].email = email
    THEN CHOOSE i \in Indices(accs) :
             /\ accs[i].email = email
             /\ \A j \in Indices(accs) : accs[j].email = email => i <= j
    ELSE 0

\* the two early returns in the other order
isAllRateLimitedModelFirst(accs, modelId, t) ==
    IF modelId = NoModel THEN FALSE
    ELSE IF Len(accs) = 0 THEN TRUE
    ELSE \A i \in Indices(accs) :
             IF accs[i].isInvalid THEN TRUE
             ELSE IF ~accs[i].enabled THEN TRUE
             ELSE LET limit == accs[i].modelRateLimits[modelId]
                  IN  limit.present /\ limit.isRateLimited
                      /\ Num(limit.resetTime) > t

\* resetTime >= Date.now() in place of >
isAllRateLimitedInclusive(accs, modelId, t) ==
    IF Len(accs) = 0 THEN TRUE
    ELSE IF modelId = NoModel THEN FALSE
    ELSE \A i \in Indices(accs) :
             IF accs[i].isInvalid THEN TRUE
             ELSE IF ~accs[i].enabled THEN TRUE
             ELSE LET limit == accs[i].modelRateLimits[modelId]
                  IN  limit.present /\ limit.isRateLimited
                      /\ Num(limit.resetTime) >= t

isAllRateLimited(accs, modelId, t) ==
    IF Len(accs) = 0 THEN TRUE
    ELSE IF modelId = NoModel THEN FALSE
    ELSE \A i \in Indices(accs) :
             IF accs[i].isInvalid THEN TRUE
             ELSE IF ~accs[i].enabled THEN TRUE
             ELSE LET limit == accs[i].modelRateLimits[modelId]
                  IN  limit.present /\ limit.isRateLimited
                      /\ Num(limit.resetTime) > t

\* the filter reading the isRateLimited flag alone
getAvailableAccountsByFlag(accs, modelId, t) ==
    {i \in Indices(accs) :
        /\ ~accs[i].isInvalid
        /\ accs[i].enabled
        /\ ~(/\ modelId # NoModel
             /\ accs[i].modelRateLimits[modelId].present
             /\ accs[i].modelRateLimits[modelId].isRateLimited)}

\* the accounts kept by the filter, as their indices in array order
getAvailableAccounts(accs, modelId, t) ==
    {i \in Indices(accs) :
        /\ ~accs[i].isInvalid
        /\ accs[i].enabled
        /\ ~(/\ modelId # NoModel
             /\ accs[i].modelRateLimits[modelId].present
             /\ accs[i].modelRateLimits[modelId].isRateLimited
             /\ Num(accs[i].modelRateLimits[modelId].resetTime) > t)}

\* resetTime < now in place of <=
IsExpiredStrict(limit, t) ==
    limit.present /\ limit.isRateLimited /\ Num(limit.resetTime) < t

\* the test of one entry in clearExpiredLimits
IsExpired(limit, t) ==
    limit.present /\ limit.isRateLimited /\ Num(limit.resetTime) <= t

\* resetTime = null without isRateLimited = false
ClearResetTimeOnly(limit) == [limit EXCEPT !.resetTime = NullNum]

\* limit.isRateLimited = false; limit.resetTime = null
ClearEntry(limit) == [limit EXCEPT !.isRateLimited = FALSE, !.resetTime = NullNum]

clearExpiredLimits(accs, t) ==
    [accounts |->
        [i \in Indices(accs) |->
            [accs[i] EXCEPT !.modelRateLimits =
                [m \in Models |->
                    IF IsExpired(accs[i].modelRateLimits[m], t)
                    THEN ClearEntry(accs[i].modelRateLimits[m])
                    ELSE accs[i].modelRateLimits[m]]]],
     cleared |->
        Cardinality({<<i, m>> \in Indices(accs) \X Models :
                        IsExpired(accs[i].modelRateLimits[m], t)})]

\* resetMs ?? DEFAULT_COOLDOWN_MS
EffectiveResetMsUnlessNull(resetMs) ==
    IF resetMs # NullNum THEN resetMs ELSE DEFAULT_COOLDOWN_MS

\* (resetMs && resetMs > 0) ? resetMs : DEFAULT_COOLDOWN_MS
EffectiveResetMs(resetMs) ==
    IF resetMs # NullNum /\ resetMs # 0 /\ resetMs > 0
    THEN resetMs ELSE DEFAULT_COOLDOWN_MS

markRateLimited(accs, email, resetMs, modelId, t) ==
    LET i == FindAccount(accs, email)
        actualResetMs == EffectiveResetMs(resetMs)
    IN  IF i = 0 THEN [accounts |-> accs, found |-> FALSE]
        ELSE [accounts |->
                [accs EXCEPT
                    ![i].modelRateLimits[modelId] =
                        LimitEntry(TRUE, t + actualResetMs, actualResetMs),
                    ![i].consecutiveFailures = @ + 1],
              found |-> TRUE]

markInvalid(accs, email) ==
    LET i == FindAccount(accs, email)
    IN  IF i = 0 THEN [accounts |-> accs, found |-> FALSE]
        ELSE [accounts |-> [accs EXCEPT ![i].isInvalid = TRUE], found |-> TRUE]

\* the waits the loop of getMinWaitTimeMs looks at: resetTime - now of the
\* entries for the model that are limited and have a resetTime
EntryWaits(accs, modelId, t) ==
    IF modelId = NoModel THEN {}
    ELSE {accs[i].modelRateLimits[modelId].resetTime - t :
            i \in {j \in Indices(accs) :
                    /\ accs[j].modelRateLimits[modelId].present
                    /\ accs[j].modelRateLimits[modelId].isRateLimited
                    /\ accs[j].modelRateLimits[modelId].resetTime # NullNum
                    /\ accs[j].modelRateLimits[modelId].resetTime # 0}}

\* the longest wait in place of the shortest
getMinWaitTimeMsLongest(accs, modelId, t) ==
    IF ~isAllRateLimited(accs, modelId, t) THEN 0
    ELSE LET waits == {w \in EntryWaits(accs, modelId, t) : w > 0}
         IN  IF waits = {} THEN DEFAULT_COOLDOWN_MS
             ELSE CHOOSE w \in waits : \A v \in waits : w >= v

getMinWaitTimeMs(accs, modelId, t) ==
    IF ~isAllRateLimited(accs, modelId, t) THEN 0
    ELSE LET waits == {w \in EntryWaits(accs, modelId, t) : w > 0}
         IN  IF waits = {} THEN DEFAULT_COOLDOWN_MS
             ELSE CHOOSE w \in waits : \A v \in waits : w <= v

\* {isRateLimited, actualResetMs, waitMs} for one account and model
getRateLimitInfo(accs, email, modelId, t) ==
    LET i == FindAccount(accs, email)
    IN  IF i = 0 \/ modelId = NoModel
        THEN [isRateLimited |-> FALSE, actualResetMs |-> NullNum, waitMs |-> 0]
        ELSE IF ~accs[i].modelRateLimits[modelId].present
        THEN [isRateLimited |-> FALSE, actualResetMs |-> NullNum, waitMs |-> 0]
        ELSE LET limit == accs[i].modelRateLimits[modelId]
                 waitMs == IF limit.resetTime # NullNum /\ limit.resetTime # 0
                           THEN Max(0, limit.resetTime - t) ELSE 0
             IN  [isRateLimited |-> limit.isRateLimited /\ waitMs > 0,
                  actualResetMs |-> IF limit.actualResetMs = 0 THEN NullNum
                                    ELSE limit.actualResetMs,
                  waitMs |-> waitMs]

\* a reset that also forgets that accounts are invalid
resetAllAndRevalidate(accs) ==
    [i \in Indices(accs) |->
        [accs[i] EXCEPT !.isInvalid = FALSE,
                        !.modelRateLimits =
            [m \in Models |->
                IF accs[i].modelRateLimits[m].present
                THEN LimitEntry(FALSE, NullNum, NullNum)
                ELSE accs[i].modelRateLimits[m]]]]

\* every entry becomes { isRateLimited: false, resetTime: null }
resetAllRateLimits(accs) ==
    [i \in Indices(accs) |->
        [accs[i] EXCEPT !.modelRateLimits =
            [m \in Models |->
                IF accs[i].modelRateLimits[m].present
                THEN LimitEntry(FALSE, NullNum, NullNum)
                ELSE accs[i].modelRateLimits[m]]]]

getConsecutiveFailures(accs, email) ==
    LET i == FindAccount(accs, email)
    IN  IF i = 0 THEN 0 ELSE accs[i].consecutiveFailures

resetConsecutiveFailures(accs, email) ==
    LET i == FindAccount(accs, email)
    IN  IF i = 0 THEN [accounts |-> accs, found |-> FALSE]
        ELSE [accounts |-> [accs EXCEPT ![i].consecutiveFailures = 0],
              found |-> TRUE]

\* returns the new count, 0 for an unknown email
incrementConsecutiveFailures(accs, email) ==
    LET i == FindAccount(accs, email)
    IN  IF i = 0 THEN [accounts |-> accs, count |-> 0]
        ELSE [accounts |-> [accs EXCEPT ![i].consecutiveFailures = @ + 1],
              count |-> accs[i].consecutiveFailures + 1]

\* CooldownReason.RATE_LIMIT, the default reason
RATE_LIMIT == "rate_limit"

markAccountCoolingDown(accs, email, cooldownMs, reason, t) ==
    LET i == FindAccount(accs, email)
    IN  IF i = 0 THEN [accounts |-> accs, found |-> FALSE]
        ELSE [accounts |-> [accs EXCEPT ![i].coolingDownUntil = t + cooldownMs,
                                        ![i].cooldownReason = reason],
              found |-> TRUE]

\* delete account.coolingDownUntil; delete account.cooldownReason
clearAccountCooldown(account) ==
    [account EXCEPT !.coolingDownUntil = NullNum, !.cooldownReason = Null]

\* the account after the call (an expired cooldown is cleared) and the answer
isAccountCoolingDownAfterDeadline(account, t) ==
    IF account.coolingDownUntil = NullNum
    THEN [account |-> account, coolingDown |-> FALSE]
    ELSE IF t > account.coolingDownUntil
    THEN [account |-> clearAccountCooldown(account), coolingDown |-> FALSE]
    ELSE [account |-> account, coolingDown |-> TRUE]

isAccountCoolingDown(account, t) ==
    IF account.coolingDownUntil = NullNum
    THEN [account |-> account, coolingDown |-> FALSE]
    ELSE IF t >= account.coolingDownUntil
    THEN [account |-> clearAccountCooldown(account), coolingDown |-> FALSE]
    ELSE [account |-> account, coolingDown |-> TRUE]

getCooldownRemaining(account, t) ==
    IF account.coolingDownUntil = NullNum THEN 0
    ELSE IF account.coolingDownUntil - t > 0 THEN account.coolingDownUntil - t
    ELSE 0

(***************************************************************************)
(* Actions of the account pool.                                            *)
(***************************************************************************)
\* Steps of the clock.
MaxTicks == 2
\* markRateLimited calls on the pool (caps consecutiveFailures).
MaxMarks == 2

\* Calls and clock steps in a run that counts them.
MaxOps == 3

\* ops in a run that does not count them; <<n, call>> after n counted steps,
\* the last of them `call`
Unmetered == <<>>

\* a call of `op` on the account at index i of the pool, 0 when the call
\* names no account of the pool
Call(op, i) == [op |-> op, account |-> i]

NoCall == Call("", 0)

\* one more call or clock step, within MaxOps when the run counts them
Spend(call) ==
    IF ops = Unmetered THEN ops' = ops
    ELSE ops[1] < MaxOps /\ ops' = <<ops[1] + 1, call>>

RECURSIVE TotalFailures(_)
TotalFailures(accs) ==
    IF accs = <<>> THEN 0
    ELSE Head(accs).consecutiveFailures + TotalFailures(Tail(accs))

ResetMsInputs == {NullNum, 0, -5000, 5000}

\* the enabled flags of the pools the model starts from
Pools == {<<>>, <<TRUE>>, <<FALSE>>, <<TRUE, TRUE>>, <<TRUE, FALSE>>}

PoolInit ==
    /\ \E enabled \in Pools :
           accounts = [i \in DOMAIN enabled |-> NewAccount(i, enabled[i])]
    /\ now = 5000
    /\ returned = 0
    /\ ops = Unmetered

Tick ==
    /\ now < 5000 * (MaxTicks + 1)
    /\ now' = now + 5000
    /\ Spend(Call("tick", 0))
    /\ UNCHANGED <<accounts, returned, streamVars, strategyVars, cacheVars, apiVars>>

MarkRateLimited ==
    \E email \in {Email(i) : i \in Indices(accounts)} \cup {UnknownEmail},
       resetMs \in ResetMsInputs, modelId \in Models :
        /\ TotalFailures(accounts) < MaxMarks
        /\ LET r == markRateLimited(accounts, email, resetMs, modelId, now)
           IN  /\ accounts' = r.accounts
               /\ returned' = IF r.found THEN 1 ELSE 0
        /\ Spend(Call("markRateLimited", FindAccount(accounts, email)))
        /\ UNCHANGED <<now, streamVars, strategyVars, cacheVars, apiVars>>

MarkInvalid ==
    \E email \in {Email(i) : i \in Indices(accounts)} \cup {UnknownEmail} :
        /\ LET r == markInvalid(accounts, email)
           IN  /\ accounts' = r.accounts
               /\ returned' = IF r.found THEN 1 ELSE 0
        /\ Spend(Call("markInvalid", FindAccount(accounts, email)))
        /\ UNCHANGED <<now, streamVars, strategyVars, cacheVars, apiVars>>

ClearExpiredLimits ==
    /\ LET r == clearExpiredLimits(accounts, now)
       IN  /\ accounts' = r.accounts
           /\ returned' = r.cleared
    /\ Spend(Call("clearExpiredLimits", 0))
    /\ UNCHANGED <<now, streamVars, strategyVars, cacheVars, apiVars>>

ResetAllRateLimits ==
    /\ accounts' = resetAllRateLimits(accounts)
    /\ returned' = 0
    /\ Spend(Call("resetAllRateLimits", 0))
    /\ UNCHANGED <<now, streamVars, strategyVars, cacheVars, apiVars>>

ResetConsecutiveFailures ==
    \E email \in {Email(i) : i \in Indices(accounts)} \cup {UnknownEmail} :
        /\ LET r == resetConsecutiveFailures(accounts, email)
           IN  /\ accounts' = r.accounts
               /\ returned' = IF r.found THEN 1 ELSE 0
        /\ Spend(Call("resetConsecutiveFailures", FindAccount(accounts, email)))
        /\ UNCHANGED <<now, streamVars, strategyVars, cacheVars, apiVars>>

IncrementConsecutiveFailures ==
    \E email \in {Email(i) : i \in Indices(accounts)} \cup {UnknownEmail} :
        /\ TotalFailures(accounts) < MaxMarks
        /\ LET r == incrementConsecutiveFailures(accounts, email)
           IN  /\ accounts' = r.accounts
               /\ returned' = r.count
        /\ Spend(Call("incrementConsecutiveFailures", FindAccount(accounts, email)))
        /\ UNCHANGED <<now, streamVars, strategyVars, cacheVars, apiVars>>

CooldownInputs == {0, 5000}

MarkAccountCoolingDown ==
    \E email \in {Email(i) : i \in Indices(accounts)} \cup {UnknownEmail},
       cooldownMs \in CooldownInputs :
        /\ LET r == markAccountCoolingDown(accounts, email, cooldownMs, RATE_LIMIT, now)
           IN  /\ accounts' = r.accounts
               /\ returned' = IF r.found THEN 1 ELSE 0
        /\ Spend(Call("markAccountCoolingDown", FindAccount(accounts, email)))
        /\ UNCHANGED <<now, streamVars, strategyVars, cacheVars, apiVars>>

\* isAccountCoolingDown(account) on an account of the pool
IsAccountCoolingDown ==
    \E i \in Indices(accounts) :
        /\ LET r == isAccountCoolingDown(accounts[i], now)
           IN  /\ accounts' = [accounts EXCEPT ![i] = r.account]
               /\ returned' = IF r.coolingDown THEN 1 ELSE 0
        /\ Spend(Call("isAccountCoolingDown", i))
        /\ UNCHANGED <<now, streamVars, strategyVars, cacheVars, apiVars>>

\* clearAccountCooldown(account) on an account of the pool
ClearAccountCooldown ==
    \E i \in Indices(accounts) :
        /\ accounts' = [accounts EXCEPT ![i] = clearAccountCooldown(accounts[i])]
        /\ returned' = 0
        /\ Spend(Call("clearAccountCooldown", i))
        /\ UNCHANGED <<now, streamVars, strategyVars, cacheVars, apiVars>>

LimitsNext == Tick \/ MarkRateLimited \/ MarkInvalid \/ ClearExpiredLimits

\* The pool while a stream is translated: no account, nothing called.
PoolIdle ==
    /\ accounts = <<>>
    /\ now = 5000
    /\ returned = 0
    /\ ops = Unmetered

\* The strategy before its first call.
StrategyIdle ==
    /\ health = <<>>
    /\ buckets = <<>>
    /\ selection = <<>>
    /\ requests = 0

\* The model-validity cache as the module creates it, with no caller.
CacheIdle ==
    /\ modelCache = [validModels |-> {}, lastFetched |-> 0, fetchPromise |-> 0]
    /\ inFlight = {}
    /\ fetches = 0
    /\ callers = <<>>

\* No callGenerateContent invocation.
ApiIdle ==
    /\ endpoints = <<>>
    /\ endpointIndex = 1
    /\ attempt = 0
    /\ upstreamCalls = <<>>
    /\ sleeps = <<>>
    /\ lastError = <<>>
    /\ callState = "idle"

InitStream == StreamInit /\ PoolIdle /\ StrategyIdle /\ CacheIdle /\ ApiIdle

SpecStream == InitStream /\ [][StreamNext]_vars

InitBatch == StreamInit /\ PoolIdle /\ StrategyIdle /\ CacheIdle /\ ApiIdle

SpecBatch == InitBatch /\ [][BatchNext]_vars

InitLines == StreamInit /\ PoolIdle /\ StrategyIdle /\ CacheIdle /\ ApiIdle

SpecLines == InitLines /\ [][LinesNext]_vars

InitLimits == PoolInit /\ StreamInit /\ StrategyIdle /\ CacheIdle /\ ApiIdle

SpecLimits == InitLimits /\ [][LimitsNext]_vars

\* A pool in use for a while: every operation of rate-limits.js, MaxOps of
\* them, from a freshly loaded pool.
LifecycleInit ==
    /\ \E enabled \in Pools :
           accounts = [i \in DOMAIN enabled |-> NewAccount(i, enabled[i])]
    /\ now = 5000
    /\ returned = 0
    /\ ops = <<0, NoCall>>

LifecycleNext ==
    \/ Tick \/ MarkRateLimited \/ MarkInvalid \/ ClearExpiredLimits
    \/ ResetAllRateLimits \/ ResetConsecutiveFailures
    \/ IncrementConsecutiveFailures \/ MarkAccountCoolingDown
    \/ IsAccountCoolingDown \/ ClearAccountCooldown

InitLifecycle == LifecycleInit /\ StreamInit /\ StrategyIdle /\ CacheIdle /\ ApiIdle

SpecLifecycle == InitLifecycle /\ [][LifecycleNext]_vars

(***************************************************************************)
(* The selection strategy: HybridStrategy over BaseStrategy and the three  *)
(* trackers.  An account is named by its index in the accounts array; the  *)
(* trackers key their maps by the account's email.                         *)
(***************************************************************************)
\* ---- BaseStrategy.isAccountUsable ----
isAccountUsable(account, modelId, t) ==
    /\ ~account.isInvalid
    /\ account.enabled
    /\ ~(/\ modelId # NoModel
         /\ account.modelRateLimits[modelId].present
         /\ account.modelRateLimits[modelId].isRateLimited
         /\ Num(account.modelRateLimits[modelId].resetTime) > t)

\* ---- HealthTracker ----
HEALTH_INITIAL == 70
HEALTH_MAX == 100
HEALTH_MIN == 0
HEALTH_MIN_USABLE == 50
HEALTH_SUCCESS_REWARD == 1
HEALTH_RATE_LIMIT_PENALTY == 10
HEALTH_FAILURE_PENALTY == 20

HealthGetScore(h, i) == h[i]
HealthIsUsable(h, i) == HealthGetScore(h, i) >= HEALTH_MIN_USABLE
recordSuccess(h, i) == [h EXCEPT ![i] = Min(HEALTH_MAX, @ + HEALTH_SUCCESS_REWARD)]
recordRateLimit(h, i) == [h EXCEPT ![i] = Max(HEALTH_MIN, @ - HEALTH_RATE_LIMIT_PENALTY)]
recordFailure(h, i) == [h EXCEPT ![i] = Max(HEALTH_MIN, @ - HEALTH_FAILURE_PENALTY)]

\* ---- TokenBucketTracker ----
MAX_TOKENS == 50
\* ms for one token to regenerate
TOKEN_REFILL_MS == 10000

getMaxTokens == MAX_TOKENS
getTokens(bk, i, t) ==
    Min(MAX_TOKENS, bk[i].tokens + ((t - bk[i].lastUpdated) \div TOKEN_REFILL_MS))
hasTokens(bk, i, t) == getTokens(bk, i, t) >= 1
consume(bk, i, t) ==
    IF getTokens(bk, i, t) < 1 THEN bk
    ELSE [bk EXCEPT ![i] = [tokens |-> getTokens(bk, i, t) - 1, lastUpdated |-> t]]
refund(bk, i, t) ==
    [bk EXCEPT ![i] = [tokens |-> Min(MAX_TOKENS, getTokens(bk, i, t) + 1),
                       lastUpdated |-> t]]
\* the shortest wait until one of the accounts in ids has a token
getMinTimeUntilToken(bk, ids, t) ==
    IF ids = {} THEN 0
    ELSE LET wait(i) == IF getTokens(bk, i, t) >= 1 THEN 0
                        ELSE TOKEN_REFILL_MS - ((t - bk[i].lastUpdated) % TOKEN_REFILL_MS)
         IN  CHOOSE w \in {wait(i) : i \in ids} : \A i \in ids : w <= wait(i)

\* ---- QuotaTracker ----
QUOTA_CRITICAL_DEFAULT == 5
QUOTA_UNKNOWN_SCORE == 50

isQuotaCritical(account, modelId, thresholdOverride) ==
    LET q == account.quota[modelId]
        threshold == IF thresholdOverride # NullNum THEN thresholdOverride
                     ELSE QUOTA_CRITICAL_DEFAULT
    IN  IF q.remainingFraction = NullNum THEN q.hasResetTime
        ELSE q.remainingFraction < threshold

QuotaGetScore(account, modelId) ==
    LET q == account.quota[modelId]
    IN  IF q.remainingFraction = NullNum
        THEN IF q.hasResetTime THEN 0 ELSE QUOTA_UNKNOWN_SCORE
        ELSE q.remainingFraction

\* ---- config.globalQuotaThreshold (0 when not configured) ----
GLOBAL_QUOTA_THRESHOLD == 0

\* ---- HybridStrategy ----
\* DEFAULT_WEIGHTS, each times ten: health 2, tokens 5, quota 3, lru 0.1
Weights10 == [health |-> 20, tokens |-> 50, quota |-> 30, lru |-> 1]

\* modelQuotaThresholds?.[modelId] ?? quotaThreshold ?? (globalQuotaThreshold || undefined)
EffectiveThreshold(account, modelId) ==
    IF account.modelQuotaThresholds[modelId] # NullNum
    THEN account.modelQuotaThresholds[modelId]
    ELSE IF account.quotaThreshold # NullNum THEN account.quotaThreshold
    ELSE IF GLOBAL_QUOTA_THRESHOLD # 0 THEN GLOBAL_QUOTA_THRESHOLD
    ELSE NullNum

QuotaCriticalFor(account, modelId) ==
    isQuotaCritical(account, modelId, EffectiveThreshold(account, modelId))

NormalFilterNoQuota(accs, h, bk, i, modelId, t) ==
    /\ isAccountUsable(accs[i], modelId, t)
    /\ HealthIsUsable(h, i)
    /\ hasTokens(bk, i, t)

\* the filter of the first pass of #getCandidates
NormalFilter(accs, h, bk, i, modelId, t) ==
    /\ isAccountUsable(accs[i], modelId, t)
    /\ HealthIsUsable(h, i)
    /\ hasTokens(bk, i, t)
    /\ ~QuotaCriticalFor(accs[i], modelId)

\* the filter of the 'quota' fallback
QuotaFallbackFilter(accs, h, bk, i, modelId, t) ==
    /\ isAccountUsable(accs[i], modelId, t)
    /\ HealthIsUsable(h, i)
    /\ hasTokens(bk, i, t)

EmergencyFilterNoTokens(accs, h, bk, i, modelId, t) ==
    isAccountUsable(accs[i], modelId, t)

\* the filter of the 'emergency' fallback
EmergencyFilter(accs, h, bk, i, modelId, t) ==
    /\ isAccountUsable(accs[i], modelId, t)
    /\ hasTokens(bk, i, t)

\* the filter of the 'lastResort' fallback
LastResortFilter(accs, h, bk, i, modelId, t) ==
    isAccountUsable(accs[i], modelId, t)

\* #getCandidates: the indices kept (array order is index order) and the level
getCandidates(accs, h, bk, modelId, t) ==
    LET normal == {i \in Indices(accs) : NormalFilter(accs, h, bk, i, modelId, t)}
        fallback == {i \in Indices(accs) : QuotaFallbackFilter(accs, h, bk, i, modelId, t)}
        emergency == {i \in Indices(accs) : EmergencyFilter(accs, h, bk, i, modelId, t)}
        lastResort == {i \in Indices(accs) : LastResortFilter(accs, h, bk, i, modelId, t)}
    IN  IF normal # {} THEN [candidates |-> normal, fallbackLevel |-> "normal"]
        ELSE IF fallback # {} THEN [candidates |-> fallback, fallbackLevel |-> "quota"]
        ELSE IF emergency # {} THEN [candidates |-> emergency, fallbackLevel |-> "emergency"]
        ELSE IF lastResort # {} THEN [candidates |-> lastResort, fallbackLevel |-> "lastResort"]
        ELSE [candidates |-> {}, fallbackLevel |-> "normal"]

\* #calculateScore, times 10000 * maxTokens so that it stays an integer:
\* health*2 + (tokens/maxTokens*100)*5 + quota*3 + (min(now-lastUsed, 1h)/1000)*0.1
calculateScore(accs, h, bk, i, modelId, t) ==
    LET tokens == getTokens(bk, i, t)
        maxTokens == getMaxTokens
        timeSinceLastUse == Min(t - accs[i].lastUsed, 3600000)
    IN  HealthGetScore(h, i) * Weights10.health * 1000 * maxTokens
        + tokens * 100 * Weights10.tokens * 1000
        + QuotaGetScore(accs[i], modelId) * Weights10.quota * 1000 * maxTokens
        + timeSinceLastUse * Weights10.lru * maxTokens

BestCandidateLastOnTie(accs, h, bk, candidates, modelId, t) ==
    CHOOSE i \in candidates :
        \A j \in candidates :
            \/ calculateScore(accs, h, bk, i, modelId, t) > calculateScore(accs, h, bk, j, modelId, t)
            \/ /\ calculateScore(accs, h, bk, i, modelId, t) = calculateScore(accs, h, bk, j, modelId, t)
               /\ i >= j

\* scored.sort((a, b) => b.score - a.score)[0]: the sort is stable
BestCandidate(accs, h, bk, candidates, modelId, t) ==
    CHOOSE i \in candidates :
        \A j \in candidates :
            \/ calculateScore(accs, h, bk, i, modelId, t) > calculateScore(accs, h, bk, j, modelId, t)
            \/ /\ calculateScore(accs, h, bk, i, modelId, t) = calculateScore(accs, h, bk, j, modelId, t)
               /\ i <= j

diagnoseAlwaysRefillWait(accs, h, bk, modelId, t) == TOKEN_REFILL_MS

\* #diagnoseNoCandidates: the wait it reports
diagnoseNoCandidates(accs, h, bk, modelId, t) ==
    LET unusable == {i \in Indices(accs) : ~isAccountUsable(accs[i], modelId, t)}
        unhealthy == {i \in Indices(accs) \ unusable : ~HealthIsUsable(h, i)}
        noTokens == {i \in Indices(accs) \ (unusable \cup unhealthy) : ~hasTokens(bk, i, t)}
    IN  IF noTokens # {} /\ unusable = {} /\ unhealthy = {}
        THEN getMinTimeUntilToken(bk, noTokens, t)
        ELSE 0

TokenChargeNever(level, bk, best, t) == bk

\* if (fallbackLevel !== 'lastResort') this.#tokenBucketTracker.consume(best.account.email)
TokenCharge(level, bk, best, t) ==
    IF level # "lastResort" THEN consume(bk, best, t) ELSE bk

\* waitMs by fallback level
ThrottleWait(level) ==
    IF level = "lastResort" THEN 500
    ELSE IF level = "emergency" THEN 250
    ELSE 0

selectAccountStampingAll(accs, h, bk, modelId, t) ==
    IF Len(accs) = 0
    THEN [account |-> 0, index |-> 0, waitMs |-> 0, fallbackLevel |-> "none",
          saved |-> FALSE, accounts |-> accs, buckets |-> bk]
    ELSE LET c == getCandidates(accs, h, bk, modelId, t)
         IN  IF c.candidates = {}
             THEN [account |-> 0, index |-> 0,
                   waitMs |-> diagnoseNoCandidates(accs, h, bk, modelId, t),
                   fallbackLevel |-> "none", saved |-> FALSE,
                   accounts |-> accs, buckets |-> bk]
             ELSE LET best == BestCandidate(accs, h, bk, c.candidates, modelId, t)
                  IN  [account |-> best, index |-> best - 1,
                       waitMs |-> ThrottleWait(c.fallbackLevel),
                       fallbackLevel |-> c.fallbackLevel, saved |-> TRUE,
                       accounts |-> [i \in DOMAIN accs |->
                                        [accs[i] EXCEPT !.lastUsed = t]],
                       buckets |-> TokenCharge(c.fallbackLevel, bk, best, t)]

\* selectAccount: what it returns and the state it leaves; account is the
\* index of the account returned, 0 for null
selectAccount(accs, h, bk, modelId, t) ==
    IF Len(accs) = 0
    THEN [account |-> 0, index |-> 0, waitMs |-> 0, fallbackLevel |-> "none",
          saved |-> FALSE, accounts |-> accs, buckets |-> bk]
    ELSE LET c == getCandidates(accs, h, bk, modelId, t)
         IN  IF c.candidates = {}
             THEN [account |-> 0, index |-> 0,
                   waitMs |-> diagnoseNoCandidates(accs, h, bk, modelId, t),
                   fallbackLevel |-> "none", saved |-> FALSE,
                   accounts |-> accs, buckets |-> bk]
             ELSE LET best == BestCandidate(accs, h, bk, c.candidates, modelId, t)
                  IN  [account |-> best, index |-> best - 1,
                       waitMs |-> ThrottleWait(c.fallbackLevel),
                       fallbackLevel |-> c.fallbackLevel, saved |-> TRUE,
                       accounts |-> [accs EXCEPT ![best].lastUsed = t],
                       buckets |-> TokenCharge(c.fallbackLevel, bk, best, t)]

(***************************************************************************)
(* Actions of the strategy: one request after another, each a selection    *)
(* followed by the report of its outcome.                                  *)
(***************************************************************************)
\* selectAccount calls in one run.
MaxRequests == 1

\* Token refill periods that pass in one run.
MaxElapse == 1

\* Date.now() when the pool is loaded
StartTime == 4000000

Quota(fraction, hasResetTime) ==
    [remainingFraction |-> fraction, hasResetTime |-> hasResetTime]

\* The state an account may be in when a request arrives.
Profile(status, score, tokens, quota, acctThreshold, modelThreshold, lastUsedAgo) ==
    [status |-> status, score |-> score, tokens |-> tokens, quota |-> quota,
     quotaThreshold |-> acctThreshold, modelThreshold |-> modelThreshold,
     lastUsedAgo |-> lastUsedAgo]

Profiles ==
    {Profile("ok", sc, tk, Quota(q, FALSE), NullNum, NullNum, 0) :
        sc \in {30, 100}, tk \in {0, 1, MAX_TOKENS}, q \in {2, 90}}
    \cup
    {Profile("invalid", HEALTH_INITIAL, MAX_TOKENS, NoQuota, NullNum, NullNum, 0),
     Profile("disabled", HEALTH_INITIAL, MAX_TOKENS, NoQuota, NullNum, NullNum, 0),
     Profile("limited", HEALTH_INITIAL, MAX_TOKENS, NoQuota, NullNum, NullNum, 0),
     Profile("limited", 30, 0, NoQuota, NullNum, NullNum, 0),
     Profile("expired", HEALTH_INITIAL, MAX_TOKENS, NoQuota, NullNum, NullNum, 10000),
     Profile("ok", HEALTH_MIN_USABLE, MAX_TOKENS, Quota(NullNum, TRUE), NullNum, NullNum, 0),
     Profile("ok", HEALTH_INITIAL, MAX_TOKENS, Quota(5, TRUE), NullNum, NullNum, 10000),
     Profile("ok", HEALTH_INITIAL, 1, Quota(2, FALSE), 1, NullNum, 0),
     Profile("ok", HEALTH_INITIAL, 1, Quota(90, FALSE), 1, 95, 0)}

AccountOf(i, p, t) ==
    [NewAccount(i, p.status # "disabled") EXCEPT
        !.isInvalid = (p.status = "invalid"),
        !.modelRateLimits["m1"] =
            IF p.status = "limited"
            THEN LimitEntry(TRUE, t + DEFAULT_COOLDOWN_MS, DEFAULT_COOLDOWN_MS)
            ELSE IF p.status = "expired"
            THEN LimitEntry(TRUE, t, DEFAULT_COOLDOWN_MS)
            ELSE NoLimit,
        !.consecutiveFailures = IF p.status \in {"limited", "expired"} THEN 1 ELSE 0,
        !.lastUsed = IF p.lastUsedAgo = 0 THEN 0 ELSE t - p.lastUsedAgo,
        !.quota = [m \in Models |-> p.quota],
        !.quotaThreshold = p.quotaThreshold,
        !.modelQuotaThresholds["m1"] = p.modelThreshold]

StrategyInit ==
    /\ now = StartTime
    /\ \E ps \in UNION {[1..n -> Profiles] : n \in 0..Len(PoolEmails)} :
          /\ accounts = [i \in DOMAIN ps |-> AccountOf(i, ps[i], now)]
          /\ health = [i \in DOMAIN ps |-> ps[i].score]
          /\ buckets = [i \in DOMAIN ps |->
                           [tokens |-> ps[i].tokens, lastUpdated |-> now]]
    /\ returned = 0
    /\ ops = Unmetered
    /\ selection = <<>>
    /\ requests = 0

NoNotification == [kind |-> "", email |-> 0]

\* no report is owed: nothing selected yet, or the last selection reported
Reported == IF selection = <<>> THEN TRUE ELSE selection[1].reported

SelectAccount ==
    /\ requests < MaxRequests
    /\ Reported
    /\ \E modelId \in Models :
          LET r == selectAccount(accounts, health, buckets, modelId, now)
          IN  /\ accounts' = r.accounts
              /\ buckets' = r.buckets
              /\ selection' = <<[account |-> r.account, index |-> r.index,
                                 waitMs |-> r.waitMs,
                                 fallbackLevel |-> r.fallbackLevel,
                                 saved |-> r.saved, modelId |-> modelId,
                                 reported |-> r.account = 0,
                                 notification |-> NoNotification,
                                 tokensBefore |->
                                     IF r.account = 0 THEN 0
                                     ELSE getTokens(buckets, r.account, now)]>>
    /\ requests' = requests + 1
    /\ UNCHANGED <<health, now, returned, ops, streamVars, cacheVars, apiVars>>

\* who a notification is about: the account selected, null, or an account
\* object that has no email
Subjects == {"selected", "null", "no email"}

\* account && account.email, as the index of the account; 0 when falsy
EmailOf(subject, selected) == IF subject = "selected" THEN selected ELSE 0

onSuccessRefunding(h, bk, email, t) ==
    IF email # 0
    THEN [health |-> recordSuccess(h, email), buckets |-> refund(bk, email, t)]
    ELSE [health |-> h, buckets |-> bk]

\* onSuccess(account, modelId)
onSuccess(h, bk, email, t) ==
    IF email # 0
    THEN [health |-> recordSuccess(h, email), buckets |-> bk]
    ELSE [health |-> h, buckets |-> bk]

\* onRateLimit(account, modelId)
onRateLimit(h, bk, email, t) ==
    IF email # 0
    THEN [health |-> recordRateLimit(h, email), buckets |-> bk]
    ELSE [health |-> h, buckets |-> bk]

\* onFailure(account, modelId)
onFailure(h, bk, email, t) ==
    IF email # 0
    THEN [health |-> recordFailure(h, email), buckets |-> refund(bk, email, t)]
    ELSE [health |-> h, buckets |-> bk]

Report(kind, email, r) ==
    /\ health' = r.health
    /\ buckets' = r.buckets
    /\ selection' = <<[selection[1] EXCEPT
                          !.reported = TRUE,
                          !.notification = [kind |-> kind, email |-> email]]>>
    /\ UNCHANGED <<accounts, now, returned, ops, requests, streamVars, cacheVars, apiVars>>

\* the caller reports a success
OnSuccess ==
    /\ ~Reported
    /\ \E subject \in Subjects :
          LET email == EmailOf(subject, selection[1].account)
          IN  Report("success", email, onSuccess(health, buckets, email, now))

\* the caller reports a rate limit
OnRateLimit ==
    /\ ~Reported
    /\ \E subject \in Subjects :
          LET email == EmailOf(subject, selection[1].account)
          IN  Report("rateLimit", email, onRateLimit(health, buckets, email, now))

\* the caller reports a failure
OnFailure ==
    /\ ~Reported
    /\ \E subject \in Subjects :
          LET email == EmailOf(subject, selection[1].account)
          IN  Report("failure", email, onFailure(health, buckets, email, now))

\* time passes: one token regenerates
Elapse ==
    /\ now < StartTime + MaxElapse * TOKEN_REFILL_MS
    /\ now' = now + TOKEN_REFILL_MS
    /\ UNCHANGED <<accounts, returned, ops, strategyVars, streamVars, cacheVars, apiVars>>

StrategyNext == SelectAccount \/ OnSuccess \/ OnRateLimit \/ OnFailure \/ Elapse

InitSelect == StrategyInit /\ StreamInit /\ CacheIdle /\ ApiIdle

SpecSelect == InitSelect /\ [][StrategyNext]_vars

(***************************************************************************)
(* The model-validity cache: cloudcode/model-api, populateModelCache and   *)
(* isValidModel.  A promise is named by a positive number, 0 is null.  An  *)
(* await is a point where other callers may run, so a call is two or       *)
(* three steps: up to its await, the settling of the fetch it awaits, and  *)
(* its continuation.                                                       *)
(***************************************************************************)
\* isValidModel calls in one run.
MaxCallers == 2

\* Times the clock passes the cache's time-to-live in one run.
MaxStale == 1

Callers == 1..MaxCallers

MODEL_VALIDATION_CACHE_TTL_MS == 300000

\* the ids asked about and listed upstream: a Claude, a Gemini and another
ModelIds == {"claude-sonnet", "gemini-pro", "gpt-oss"}

\* constants.getModelFamily
getModelFamily(modelId) ==
    IF modelId = "claude-sonnet" THEN "claude"
    ELSE IF modelId = "gemini-pro" THEN "gemini"
    ELSE "unknown"

isSupportedModel(modelId) ==
    getModelFamily(modelId) = "claude" \/ getModelFamily(modelId) = "gemini"

\* How a fetchAvailableModels call settles: it throws (every endpoint
\* failed), or it returns data whose models field is absent or is an object
\* with these keys.
Threw == [threw |-> TRUE, hasModels |-> FALSE, models |-> {}]
Fetched(hasModels, models) == [threw |-> FALSE, hasModels |-> hasModels, models |-> models]

FetchResults ==
    {Threw, Fetched(FALSE, {}), Fetched(TRUE, {}),
     Fetched(TRUE, {"claude-sonnet"}), Fetched(TRUE, ModelIds)}

\* populateModelCache up to its first await, with the in-flight test left out
PopulateEntryNoJoin(cache, t) ==
    IF cache.validModels # {} /\ t - cache.lastFetched < MODEL_VALIDATION_CACHE_TTL_MS
    THEN "fresh"
    ELSE "start"

\* populateModelCache up to its first await: return at once on a fresh
\* cache, wait for the fetch in flight, or start one
PopulateEntry(cache, t) ==
    IF cache.validModels # {} /\ t - cache.lastFetched < MODEL_VALIDATION_CACHE_TTL_MS
    THEN "fresh"
    ELSE IF cache.fetchPromise # 0 THEN "join"
    ELSE "start"

\* the body of the fetch promise with fetchPromise reset at the end of the
\* try block and not in a finally block
SettleFetchWithoutFinally(cache, result, t) ==
    IF result.threw THEN cache
    ELSE IF result.hasModels
    THEN [cache EXCEPT
            !.validModels = {m \in result.models : isSupportedModel(m)},
            !.lastFetched = t,
            !.fetchPromise = 0]
    ELSE [cache EXCEPT !.fetchPromise = 0]

\* the body of the fetch promise after fetchAvailableModels has settled
SettleFetch(cache, result, t) ==
    LET filled == IF ~result.threw /\ result.hasModels
                  THEN [cache EXCEPT
                          !.validModels = {m \in result.models : isSupportedModel(m)},
                          !.lastFetched = t]
                  ELSE cache
    IN  [filled EXCEPT !.fetchPromise = 0]

\* isValidModel after its await
ValidateAgainst(cache, modelId) ==
    IF cache.validModels # {} THEN modelId \in cache.validModels ELSE TRUE

\* a caller: pc is "awaiting" (promise awaiting), "resumed" (its await is
\* over) or "done" (valid holds what it returned); refreshFailed tells
\* that the fetch it awaited threw
Caller(pc, modelId, awaiting, refreshFailed, valid) ==
    [pc |-> pc, modelId |-> modelId, awaiting |-> awaiting,
     refreshFailed |-> refreshFailed, valid |-> valid]

CacheInit ==
    /\ modelCache = [validModels |-> {}, lastFetched |-> 0, fetchPromise |-> 0]
    /\ inFlight = {}
    /\ fetches = 0
    /\ callers = <<>>
    /\ accounts = <<>>
    /\ now = MODEL_VALIDATION_CACHE_TTL_MS
    /\ returned = 0
    /\ ops = Unmetered

\* a call of isValidModel(modelId, ...) runs up to its first await
IsValidModel ==
    \E modelId \in ModelIds :
        /\ Len(callers) < MaxCallers
        /\ LET entry == PopulateEntry(modelCache, now)
               promise == fetches + 1
           IN  IF entry = "fresh"
               THEN /\ callers' = Append(callers, Caller("resumed", modelId, 0, FALSE, FALSE))
                    /\ UNCHANGED <<modelCache, inFlight, fetches>>
               ELSE IF entry = "join"
               THEN /\ callers' = Append(callers,
                           Caller("awaiting", modelId, modelCache.fetchPromise, FALSE, FALSE))
                    /\ UNCHANGED <<modelCache, inFlight, fetches>>
               ELSE /\ modelCache' = [modelCache EXCEPT !.fetchPromise = promise]
                    /\ inFlight' = inFlight \cup {promise}
                    /\ fetches' = promise
                    /\ callers' = Append(callers,
                           Caller("awaiting", modelId, promise, FALSE, FALSE))
        /\ UNCHANGED <<streamVars, poolVars, strategyVars, apiVars>>

\* a fetchAvailableModels call settles and the promise body runs to its end;
\* the continuations of the calls resumed by an earlier settling have run by
\* then (promise jobs run before the next I/O completion is delivered)
FetchSettles ==
    \E promise \in inFlight, result \in FetchResults :
        /\ \A c \in DOMAIN callers : callers[c].pc # "resumed"
        /\ modelCache' = SettleFetch(modelCache, result, now)
        /\ inFlight' = inFlight \ {promise}
        /\ callers' = [c \in DOMAIN callers |->
                          IF callers[c].pc = "awaiting" /\ callers[c].awaiting = promise
                          THEN [callers[c] EXCEPT !.pc = "resumed",
                                                  !.refreshFailed = result.threw]
                          ELSE callers[c]]
        /\ UNCHANGED <<fetches, streamVars, poolVars, strategyVars, apiVars>>

\* a call whose await is over reads the cache and returns
Validate ==
    \E c \in DOMAIN callers :
        /\ callers[c].pc = "resumed"
        /\ callers' = [callers EXCEPT
                          ![c].pc = "done",
                          ![c].valid = ValidateAgainst(modelCache, callers[c].modelId)]
        /\ UNCHANGED <<modelCache, inFlight, fetches, streamVars, poolVars,
                       strategyVars, apiVars>>

\* the clock passes the time-to-live
CacheAges ==
    /\ now < MODEL_VALIDATION_CACHE_TTL_MS * (MaxStale + 1)
    /\ now' = now + MODEL_VALIDATION_CACHE_TTL_MS
    /\ UNCHANGED <<accounts, returned, ops, cacheVars, streamVars, strategyVars, apiVars>>

CacheNext == IsValidModel \/ FetchSettles \/ Validate \/ CacheAges

InitCache == CacheInit /\ StreamInit /\ StrategyIdle /\ ApiIdle

SpecCache == InitCache /\ [][CacheNext]_vars

\* every fetch settles (fetchAvailableModels returns or throws once each of
\* its requests has), and a continuation that can run does run
SpecCacheFair ==
    InitCache /\ [][CacheNext]_vars /\ WF_vars(FetchSettles) /\ WF_vars(Validate)

(***************************************************************************)
(* transport/antigravity.api: callGenerateContent, its retry loop over the *)
(* endpoints, and parseRetryAfterMs.                                       *)
(***************************************************************************)
RATE_LIMIT_MAX_RETRIES == 2
RATE_LIMIT_BASE_DELAY_MS == 1000
RATE_LIMIT_MAX_DELAY_MS == 15000
RATE_LIMIT_MAX_WAIT_MS == 120000

ANTIGRAVITY_ENDPOINT_PROD == "https://cloudcode-pa.googleapis.com"
ANTIGRAVITY_ENDPOINT_DAILY == "https://daily-cloudcode-pa.googleapis.com"
ANTIGRAVITY_ENDPOINTS == <<ANTIGRAVITY_ENDPOINT_PROD, ANTIGRAVITY_ENDPOINT_DAILY>>

resolveEndpoints(preference) ==
    IF preference = "prod"
    THEN <<ANTIGRAVITY_ENDPOINT_PROD, ANTIGRAVITY_ENDPOINT_DAILY>>
    ELSE IF preference = "daily"
    THEN <<ANTIGRAVITY_ENDPOINT_DAILY, ANTIGRAVITY_ENDPOINT_PROD>>
    ELSE ANTIGRAVITY_ENDPOINTS

\* A header value or a match in the error text, by what parseInt, new Date
\* and the two regular expressions make of it:
\*   "absent"  no such header (or an empty one) / no match
\*   "int"     parseInt gives value
\*   "date"    parseInt gives NaN, new Date gives the instant value (ms)
\*   "junk"    parseInt gives NaN and new Date is invalid
Absent == [kind |-> "absent", value |-> 0]
Seconds(n) == [kind |-> "int", value |-> n]
DateAt(ms) == [kind |-> "date", value |-> ms]
Junk == [kind |-> "junk", value |-> 0]

\* quotaResetDelay in the error text: the number in thousandths and its unit
QuotaDelay(thousandths, unit) ==
    [kind |-> "delay", value |-> thousandths, unit |-> unit]
NoQuotaDelay == [kind |-> "absent", value |-> 0, unit |-> "s"]

\* Math.ceil of thousandths / 1000
CeilThousandths(x) == (x + 999) \div 1000

\* What a rejected request carries: the status code, which of the three
\* rate-limit markers the lower-cased error text includes, the three headers
\* and the two fields parseRetryAfterMs looks for in the text.
UpstreamError(status, marks, retryAfter, resetAfter, resetAt, quotaDelay, quotaStamp) ==
    [status |-> status, marks |-> marks, retryAfter |-> retryAfter,
     resetAfter |-> resetAfter, resetAt |-> resetAt,
     quotaResetDelay |-> quotaDelay, quotaResetTimeStamp |-> quotaStamp]

\* new Error('No endpoints available')
NoEndpointsAvailable ==
    UpstreamError(NullNum, {}, Absent, Absent, Absent, NoQuotaDelay, Absent)

isRateLimitAnyError(error) == TRUE

isRateLimit(error) ==
    \/ error.status = 429
    \/ "resource_exhausted" \in error.marks
    \/ "quota_exhausted" \in error.marks
    \/ "rate limit" \in error.marks

\* parseRetryAfterMs(error, errorText) at the instant t; NullNum is null
parseRetryAfterMs(error, t) ==
    IF error.retryAfter.kind = "int"
    THEN error.retryAfter.value * 1000
    ELSE IF error.retryAfter.kind = "date"
    THEN Max(error.retryAfter.value - t, 0)
    ELSE IF error.resetAfter.kind = "int" /\ error.resetAfter.value > 0
    THEN error.resetAfter.value * 1000
    ELSE IF error.resetAt.kind = "int" /\ error.resetAt.value > 0
    THEN Max(error.resetAt.value * 1000 - t, 0)
    ELSE IF error.quotaResetDelay.kind = "delay"
    THEN IF error.quotaResetDelay.unit = "s"
         THEN error.quotaResetDelay.value
         ELSE CeilThousandths(error.quotaResetDelay.value)
    ELSE IF error.quotaResetTimeStamp.kind = "date"
    THEN Max(error.quotaResetTimeStamp.value - t, 0)
    ELSE NullNum

\* Math.min(RATE_LIMIT_BASE_DELAY_MS * Math.pow(2, attempt), RATE_LIMIT_MAX_DELAY_MS)
Backoff(n) == Min(RATE_LIMIT_BASE_DELAY_MS * (2 ^ n), RATE_LIMIT_MAX_DELAY_MS)

DelayMsBackoffOnly(error, n, t) == Backoff(n)

\* delayMs = retryAfterMs ?? backoff
DelayMs(error, n, t) ==
    IF parseRetryAfterMs(error, t) = NullNum
    THEN Backoff(n)
    ELSE parseRetryAfterMs(error, t)

ShouldSleepWhileRateLimited(error, n, t) ==
    isRateLimit(error) /\ ~(DelayMs(error, n, t) > RATE_LIMIT_MAX_WAIT_MS)

\* the catch block sleeps and retries; otherwise it breaks out of the inner loop
ShouldSleep(error, n, t) ==
    isRateLimit(error) /\ n < RATE_LIMIT_MAX_RETRIES
        /\ ~(DelayMs(error, n, t) > RATE_LIMIT_MAX_WAIT_MS)

\* The rejections an upstream call can end in, at the instant t.
UpstreamErrors(t) ==
    { UpstreamError(500, {}, Absent, Absent, Absent, NoQuotaDelay, Absent),
      UpstreamError(429, {}, Absent, Absent, Absent, NoQuotaDelay, Absent),
      UpstreamError(429, {}, Seconds(200), Absent, Absent, NoQuotaDelay, Absent),
      UpstreamError(429, {}, Seconds(-5), Absent, Absent, NoQuotaDelay, Absent),
      UpstreamError(429, {"rate limit"}, Junk, Seconds(0),
                    Seconds((t \div 1000) + 3), NoQuotaDelay, Absent),
      UpstreamError(403, {"resource_exhausted"}, Absent, Absent, Absent,
                    QuotaDelay(1500, "s"), Absent),
      UpstreamError(503, {"quota_exhausted"}, Absent, Absent, Absent,
                    NoQuotaDelay, DateAt(t - 1000)),
      UpstreamError(429, {}, DateAt(t + 4000), Absent, Absent,
                    QuotaDelay(250500, "ms"), Absent) }

Preferences == {"prod", "daily", "auto"}

Sent(endpoint, ok, failure) ==
    [endpoint |-> endpoint, ok |-> ok, failure |-> failure]

\* the calls sent to the endpoint at position i
CallsTo(i) ==
    {k \in DOMAIN upstreamCalls : upstreamCalls[k].endpoint = endpoints[i]}

\* callGenerateContent(ctx, payload, endpointPreference, model) up to its
\* first request
Invoke ==
    \E preference \in Preferences :
        /\ callState = "idle"
        /\ endpoints' = resolveEndpoints(preference)
        /\ lastError' = <<NoEndpointsAvailable>>
        /\ endpointIndex' = 1
        /\ attempt' = 0
        /\ callState' = "requesting"
        /\ UNCHANGED <<upstreamCalls, sleeps, streamVars, poolVars,
                       strategyVars, cacheVars>>

\* the request resolves: the response is returned
RequestSucceeds ==
    /\ callState = "requesting"
    /\ upstreamCalls' = Append(upstreamCalls,
                               Sent(endpoints[endpointIndex], TRUE, <<>>))
    /\ callState' = "returned"
    /\ UNCHANGED <<endpoints, endpointIndex, attempt, sleeps, lastError,
                   streamVars, poolVars, strategyVars, cacheVars>>

\* the request rejects: the catch block, and what the loops do after a break
RequestFails ==
    \E error \in UpstreamErrors(now) :
        /\ callState = "requesting"
        /\ upstreamCalls' = Append(upstreamCalls,
                                   Sent(endpoints[endpointIndex], FALSE, <<error>>))
        /\ lastError' = <<error>>
        /\ IF ShouldSleep(error, attempt, now)
           THEN /\ sleeps' = Append(sleeps, DelayMs(error, attempt, now))
                /\ callState' = "sleeping"
                /\ UNCHANGED <<endpointIndex, attempt>>
           ELSE /\ sleeps' = sleeps
                /\ endpointIndex' = endpointIndex + 1
                /\ attempt' = 0
                /\ callState' = IF endpointIndex + 1 > Len(endpoints)
                                THEN "thrown"
                                ELSE "requesting"
        /\ UNCHANGED <<endpoints, streamVars, poolVars, strategyVars, cacheVars>>

\* sleep(delayMs) is over: continue, with attempt++
Wake ==
    /\ callState = "sleeping"
    /\ now' = now + Max(sleeps[Len(sleeps)], 0)
    /\ attempt' = attempt + 1
    /\ callState' = "requesting"
    /\ UNCHANGED <<endpoints, endpointIndex, upstreamCalls, sleeps, lastError,
                   accounts, returned, ops, streamVars, strategyVars, cacheVars>>

CallNext == Invoke \/ RequestSucceeds \/ RequestFails \/ Wake

InitCall == ApiIdle /\ StreamInit /\ PoolIdle /\ StrategyIdle /\ CacheIdle

SpecCall == InitCall /\ [][CallNext]_vars

\* every request settles and every sleep ends
SpecCallFair == InitCall /\ [][CallNext]_vars /\ WF_vars(CallNext)

(***************************************************************************)
(* Claims about streamSSEResponse, checked under SpecStream.               *)
(***************************************************************************)
\* what kind of event ev is: its type, and the block or delta type it carries
EventKind(ev) ==
    IF ev.type = "content_block_start"
    THEN <<ev.type, ev.content_block.type>>
    ELSE IF ev.type = "content_block_delta" THEN <<ev.type, ev.delta>>
    ELSE <<ev.type, "">>

EventKinds(events) == [k \in 1..Len(events) |-> EventKind(events[k])]

\* a part the translator handles in its functionCall branch
IsCallPart(part) ==
    /\ part.isObject /\ ~part.thought /\ part.text = Undefined
    /\ part.functionCall # <<>>

\* a part the translator handles in its thought branch
IsThoughtPart(part) == part.isObject /\ part.thought

IsToolUseStart(ev) ==
    ev.type = "content_block_start" /\ ev.content_block.type = "tool_use"

ThinkingThenToolUse ==
    << <<"content_block_start", "thinking">>,
       <<"content_block_delta", "thinking_delta">>,
       <<"content_block_delta", "signature_delta">>,
       <<"content_block_stop", "">>,
       <<"content_block_start", "tool_use">>,
       <<"content_block_delta", "input_json_delta">> >>

\* C1: when the content parts of the stream are one thought part with a
\* continuation signature of at least MIN_SIGNATURE_LENGTH followed by one
\* functionCall part, the events after message_start are, in this order,
\* content_block_start(thinking), thinking_delta, signature_delta,
\* content_block_stop, content_block_start(tool_use), input_json_delta.
C1_ThoughtThenToolUseOrder ==
    ( /\ Len(consumed) = 2
      /\ IsThoughtPart(consumed[1])
      /\ Len(consumed[1].thoughtSignature) >= MIN_SIGNATURE_LENGTH
      /\ IsCallPart(consumed[2]) )
    => /\ Len(emitted) >= 7
       /\ emitted[1].type = "message_start"
       /\ SubSeq(EventKinds(emitted), 2, 7) = ThinkingThenToolUse
       /\ emitted[4].payload = consumed[1].thoughtSignature

C1_Witness ==
    /\ outcome = "completed"
    /\ consumed = <<ThoughtLong, CallNoIdSig>>

CallParts == SelectSeq(consumed, IsCallPart)

ToolUseStarts == SelectSeq(emitted, IsToolUseStart)

\* how many of the first j functionCall parts came without an upstream id
DrawnAmong(j) ==
    Cardinality({k \in 1..j : CallParts[k].functionCall[1].id = ""})

\* C2: every functionCall part gives one tool_use content_block_start, whose
\* id is the upstream functionCall.id or, when upstream gives none, a
\* generated id; a sibling signature of at least MIN_SIGNATURE_LENGTH is
\* attached to that block and cached under that id; a missing or shorter
\* signature is neither attached nor cached.
C2_ToolSignatureAttachedAndCached ==
    /\ Len(ToolUseStarts) = Len(CallParts)
    /\ \A j \in 1..Len(CallParts) :
          LET call == CallParts[j].functionCall[1]
              sig == CallParts[j].thoughtSignature
              block == ToolUseStarts[j].content_block
          IN  /\ block.id = IF call.id # "" THEN call.id
                            ELSE RandomToolId(DrawnAmong(j))
              /\ IF Len(sig) >= MIN_SIGNATURE_LENGTH
                 THEN /\ block.thoughtSignature = <<sig>>
                      /\ block.id \in DOMAIN signatureCache
                      /\ signatureCache[block.id] = sig
                 ELSE /\ block.thoughtSignature = <<>>
                      /\ block.id \notin DOMAIN signatureCache

C2_Witness ==
    /\ outcome = "completed"
    /\ consumed = <<CallNoIdSig, CallIdShort, CallIdSig>>

\* C3: a stream none of whose chunks carries a content part ends with
\* EmptyResponseError and yields no event at all: no message_start, no
\* message_delta, no message_stop.
C3_EmptyStreamRaises ==
    consumed = <<>> =>
        /\ emitted = <<>>
        /\ outcome \in {"reading", "EmptyResponseError"}

C3_Witness ==
    /\ outcome = "EmptyResponseError"
    /\ consumed = <<>>
    /\ inputTokens > 0

(***************************************************************************)
(* Claims about rate-limits.js, checked under SpecLimits.                  *)
(***************************************************************************)
Entries == Indices(accounts) \X Models

\* C7: clearExpiredLimits changes exactly the entries with isRateLimited
\* true and resetTime <= now, to isRateLimited = false and resetTime = null;
\* every other entry and every other account field stays as it was, and the
\* call returns the number of entries it cleared.
C7_ClearsExactlyExpired ==
    [][ClearExpiredLimits =>
        /\ Len(accounts') = Len(accounts)
        /\ \A i \in Indices(accounts) :
              /\ [accounts'[i] EXCEPT !.modelRateLimits = accounts[i].modelRateLimits]
                     = accounts[i]
              /\ \A m \in Models :
                    LET old == accounts[i].modelRateLimits[m]
                        new == accounts'[i].modelRateLimits[m]
                    IN  IF old.present /\ old.isRateLimited /\ old.resetTime <= now
                        THEN new = [old EXCEPT !.isRateLimited = FALSE,
                                               !.resetTime = NullNum]
                        ELSE new = old
        /\ returned' =
              Cardinality({e \in Entries :
                  LET old == accounts[e[1]].modelRateLimits[e[2]]
                  IN  old.present /\ old.isRateLimited /\ old.resetTime <= now})
    ]_vars

\* clearExpiredLimits has cleared one entry and left a still-limited one
C7_Witness ==
    /\ returned = 1
    /\ \E e \in Entries :
          LET limit == accounts[e[1]].modelRateLimits[e[2]]
          IN  limit.present /\ ~limit.isRateLimited /\ limit.resetTime = NullNum
    /\ \E e \in Entries :
          LET limit == accounts[e[1]].modelRateLimits[e[2]]
          IN  limit.present /\ limit.isRateLimited /\ limit.resetTime > now

\* C8: a second clearExpiredLimits call right after a first one (same
\* Date.now(), nothing in between) changes no account and returns 0.
C8_ClearExpiredIdempotent ==
    LET once == clearExpiredLimits(accounts, now)
        twice == clearExpiredLimits(once.accounts, now)
    IN  /\ twice.accounts = once.accounts
        /\ twice.cleared = 0

\* a state in which the first call has two entries to clear
C8_Witness == clearExpiredLimits(accounts, now).cleared = 2

\* C9 as stated: true for an empty list whatever the model, false for any
\* list when the model is absent.
C9_AsStated ==
    /\ \A m \in Models \cup {NoModel} : isAllRateLimited(<<>>, m, now)
    /\ ~isAllRateLimited(accounts, NoModel, now)

\* C9: (amended) isAllRateLimited is true for an empty account list whatever
\* the model, absent or not, and false for every non-empty account list when
\* the model is absent.
C9_EmptyListThenAbsentModel ==
    /\ Len(accounts) = 0 =>
          \A m \in Models \cup {NoModel} : isAllRateLimited(accounts, m, now)
    /\ Len(accounts) > 0 => ~isAllRateLimited(accounts, NoModel, now)

\* a non-empty pool that is all rate-limited for a model, asked with none
C9_Witness ==
    /\ Len(accounts) = 2
    /\ isAllRateLimited(accounts, "m1", now)
    /\ ~isAllRateLimited(accounts, NoModel, now)

\* account i cannot serve model m at time t
Unavailable(i, m, t) ==
    \/ accounts[i].isInvalid
    \/ accounts[i].enabled = FALSE
    \/ /\ accounts[i].modelRateLimits[m].present
       /\ accounts[i].modelRateLimits[m].isRateLimited
       /\ accounts[i].modelRateLimits[m].resetTime > t

\* C10: for a non-empty account list and a present model, isAllRateLimited
\* is true exactly when every account is invalid, or disabled, or has an
\* entry for that model with isRateLimited true and resetTime later than now.
C10_AllRateLimitedIff ==
    Len(accounts) > 0 =>
        \A m \in Models :
            isAllRateLimited(accounts, m, now)
                <=> (\A i \in Indices(accounts) : Unavailable(i, m, now))

\* both accounts limited for m1 by an entry, one of them expiring just now
C10_Witness ==
    /\ Len(accounts) = 2
    /\ \A i \in Indices(accounts) :
          /\ ~accounts[i].isInvalid /\ accounts[i].enabled
          /\ accounts[i].modelRateLimits["m1"].isRateLimited
    /\ accounts[1].modelRateLimits["m1"].resetTime = now
    /\ accounts[2].modelRateLimits["m1"].resetTime > now
    /\ ~isAllRateLimited(accounts, "m1", now)

\* resetTime - now of the entries for model m that lie in the future
PositiveWaits(m) ==
    IF m = NoModel THEN {}
    ELSE {w \in {accounts[i].modelRateLimits[m].resetTime - now :
                    i \in {j \in Indices(accounts) :
                            /\ accounts[j].modelRateLimits[m].present
                            /\ accounts[j].modelRateLimits[m].resetTime # NullNum}} :
            w > 0}

\* C11: getMinWaitTimeMs returns 0 whenever not all accounts are rate-limited
\* for the model; otherwise the smallest strictly positive resetTime - now
\* over the accounts' entries for the model, or the default cooldown when
\* there is no such entry; it never returns a negative value.
C11_MinWaitIsSmallestPositive ==
    \A m \in Models \cup {NoModel} :
        LET r == getMinWaitTimeMs(accounts, m, now)
        IN  /\ r >= 0
            /\ ~isAllRateLimited(accounts, m, now) => r = 0
            /\ isAllRateLimited(accounts, m, now) =>
                  IF PositiveWaits(m) = {} THEN r = DEFAULT_COOLDOWN_MS
                  ELSE /\ r \in PositiveWaits(m)
                       /\ \A w \in PositiveWaits(m) : r <= w

\* both accounts limited for m1, one reset 5000 ms away and one 10000 ms away
C11_Witness ==
    /\ Len(accounts) = 2
    /\ PositiveWaits("m1") = {5000, 10000}
    /\ getMinWaitTimeMs(accounts, "m1", now) = 5000

\* C12: markRateLimited on a known account sets the entry for the model to
\* isRateLimited = true with resetTime = now + resetMs when resetMs > 0 and
\* now + the default cooldown when resetMs is absent, zero or negative, so
\* resetTime is later than now; it adds exactly 1 to that account's
\* consecutiveFailures and leaves entries of other models and other accounts
\* as they were; for an unknown email it returns false and changes nothing.
C12_MarkRateLimitedEffect ==
    \A email \in {Email(i) : i \in Indices(accounts)} \cup {UnknownEmail},
       resetMs \in ResetMsInputs, m \in Models :
        LET r == markRateLimited(accounts, email, resetMs, m, now)
            effective == IF resetMs > 0 THEN resetMs ELSE DEFAULT_COOLDOWN_MS
        IN  IF \A i \in Indices(accounts) : accounts[i].email # email
            THEN ~r.found /\ r.accounts = accounts
            ELSE \A i \in Indices(accounts) :
                    IF accounts[i].email # email
                    THEN r.accounts[i] = accounts[i]
                    ELSE /\ r.accounts[i].modelRateLimits[m].present
                         /\ r.accounts[i].modelRateLimits[m].isRateLimited
                         /\ r.accounts[i].modelRateLimits[m].resetTime = now + effective
                         /\ r.accounts[i].modelRateLimits[m].resetTime > now
                         /\ r.accounts[i].consecutiveFailures
                                = accounts[i].consecutiveFailures + 1
                         /\ \A other \in Models \ {m} :
                               r.accounts[i].modelRateLimits[other]
                                   = accounts[i].modelRateLimits[other]
                         /\ [r.accounts[i] EXCEPT
                                !.modelRateLimits = accounts[i].modelRateLimits,
                                !.consecutiveFailures = accounts[i].consecutiveFailures]
                                = accounts[i]

\* one account marked twice: for m2 with resetMs 5000, then for m1 just now
\* with the default cooldown
C12_Witness ==
    \E i \in Indices(accounts) :
        /\ accounts[i].consecutiveFailures = 2
        /\ accounts[i].modelRateLimits["m1"].isRateLimited
        /\ accounts[i].modelRateLimits["m1"].resetTime = now + DEFAULT_COOLDOWN_MS
        /\ accounts[i].modelRateLimits["m2"].isRateLimited
        /\ accounts[i].modelRateLimits["m2"].actualResetMs = 5000

\* the entries still flagged isRateLimited whose resetTime has been reached
LapsedEntries ==
    {e \in Entries :
        LET limit == accounts[e[1]].modelRateLimits[e[2]]
        IN  limit.present /\ limit.isRateLimited /\ limit.resetTime # NullNum
            /\ limit.resetTime <= now}

\* C13: an entry with isRateLimited = true and resetTime <= now is treated
\* as not rate-limited by every reader: getAvailableAccounts keeps the
\* account (when it is valid and enabled), isAllRateLimited is then false,
\* getRateLimitInfo reports isRateLimited = false and waitMs = 0, and
\* getMinWaitTimeMs returns what it returns with the entry absent.
C13_LazyExpiry ==
    \A e \in LapsedEntries :
        LET i == e[1]
            m == e[2]
            info == getRateLimitInfo(accounts, accounts[i].email, m, now)
            without == [accounts EXCEPT ![i].modelRateLimits[m] = NoLimit]
        IN  /\ (~accounts[i].isInvalid /\ accounts[i].enabled) =>
                  /\ i \in getAvailableAccounts(accounts, m, now)
                  /\ ~isAllRateLimited(accounts, m, now)
            /\ ~info.isRateLimited
            /\ info.waitMs = 0
            /\ getMinWaitTimeMs(accounts, m, now) = getMinWaitTimeMs(without, m, now)

\* a lapsed entry, never cleared, on the one account that keeps the pool
\* from being all rate-limited
C13_Witness ==
    /\ Len(accounts) = 2
    /\ \E e \in LapsedEntries :
          /\ accounts[e[1]].modelRateLimits[e[2]].resetTime < now
          /\ getAvailableAccounts(accounts, e[2], now) = {e[1]}
          /\ \E j \in Indices(accounts) :
                /\ j # e[1]
                /\ ~accounts[j].isInvalid /\ accounts[j].enabled
                /\ accounts[j].modelRateLimits[e[2]].isRateLimited
                /\ accounts[j].modelRateLimits[e[2]].resetTime > now

(***************************************************************************)
(* Claims about a pool in use, checked under SpecLifecycle.                *)
(***************************************************************************)
\* C14: once markInvalid has marked an account, no later markRateLimited,
\* clearExpiredLimits, resetAllRateLimits, resetConsecutiveFailures,
\* incrementConsecutiveFailures, cooldown mark, clear or read, and no
\* passage of time clears isInvalid; and an invalid account is never among
\* getAvailableAccounts for any model, present or absent, and always counts
\* as unavailable in isAllRateLimited.
C14_InvalidIsPermanent ==
    /\ [](\A i \in Indices(accounts) :
            accounts[i].isInvalid =>
                /\ \A m \in Models \cup {NoModel} :
                      i \notin getAvailableAccounts(accounts, m, now)
                /\ \A m \in Models :
                      isAllRateLimited(accounts, m, now)
                          <=> (\A j \in Indices(accounts) \ {i} : Unavailable(j, m, now)))
    /\ [][\A i \in Indices(accounts) :
            accounts[i].isInvalid =>
                /\ Len(accounts') = Len(accounts)
                /\ accounts'[i].isInvalid]_vars

\* an invalid account whose rate limit was reset and whose failure count
\* was zeroed, next to an account that is available
C14_Witness ==
    /\ Len(accounts) = 2
    /\ ops[1] = MaxOps
    /\ \E i \in Indices(accounts) :
          /\ accounts[i].isInvalid
          /\ accounts[i].modelRateLimits["m1"].present
          /\ ~accounts[i].modelRateLimits["m1"].isRateLimited
          /\ getAvailableAccounts(accounts, "m1", now) = Indices(accounts) \ {i}

\* the step is the call `op` on the account at index i
CallStep(op, i) ==
    /\ ops # Unmetered
    /\ ops'[1] = ops[1] + 1
    /\ ops'[2] = Call(op, i)

\* C26: after markAccountCoolingDown(account, d) the deadline is now + d;
\* every read before the deadline returns true and changes nothing; a read
\* at or after the deadline returns false and removes coolingDownUntil and
\* cooldownReason; with no deadline a read returns false, and no deadline
\* appears or moves unless markAccountCoolingDown is called again.
C26_CooldownExpiresOnRead ==
    [][\A i \in Indices(accounts) :
          /\ CallStep("markAccountCoolingDown", i) =>
                 /\ accounts'[i].coolingDownUntil - now \in CooldownInputs
                 /\ accounts'[i].cooldownReason = RATE_LIMIT
          /\ CallStep("isAccountCoolingDown", i) =>
                 IF /\ accounts[i].coolingDownUntil # NullNum
                    /\ now < accounts[i].coolingDownUntil
                 THEN returned' = 1 /\ accounts' = accounts
                 ELSE /\ returned' = 0
                      /\ accounts' = [accounts EXCEPT
                                         ![i].coolingDownUntil = NullNum,
                                         ![i].cooldownReason = Null]
          /\ ~CallStep("markAccountCoolingDown", i) =>
                 /\ Len(accounts') = Len(accounts)
                 /\ accounts'[i].coolingDownUntil
                        \in {NullNum, accounts[i].coolingDownUntil}]_vars

\* the account was marked, and a read before its deadline has just
\* returned true
C26_Witness ==
    /\ ops # Unmetered
    /\ \E i \in Indices(accounts) :
          /\ ops[2] = Call("isAccountCoolingDown", i)
          /\ returned = 1
          /\ accounts[i].coolingDownUntil = now + 5000
          /\ accounts[i].cooldownReason = RATE_LIMIT

(***************************************************************************)
(* Claims about HybridStrategy.selectAccount, checked under SpecSelect.    *)
(* A step of SelectAccount is the step that counts a request; the filters  *)
(* are read in the state the call found.                                   *)
(***************************************************************************)
FallbackLevels == <<"normal", "quota", "emergency", "lastResort">>

\* account i is kept by the filters the spec lists for the level
PassesLevel(level, i, m) ==
    /\ isAccountUsable(accounts[i], m, now)
    /\ level \in {"normal", "quota"} => HealthIsUsable(health, i)
    /\ level \in {"normal", "quota", "emergency"} => hasTokens(buckets, i, now)
    /\ level = "normal" => ~QuotaCriticalFor(accounts[i], m)

\* C4: selectAccount never returns an account excluded at the fallback level
\* it chose (normal: usable, health-usable, has tokens, not quota-critical;
\* quota: usable, health-usable, has tokens; emergency: usable, has tokens;
\* lastResort: usable), and it chooses a looser level only when every
\* stricter level has no candidate.
C4_SelectedPassesChosenLevel ==
    [][requests' # requests =>
        LET sel == selection'[1]
        IN  sel.account # 0 =>
              \E k \in 1..Len(FallbackLevels) :
                  /\ sel.fallbackLevel = FallbackLevels[k]
                  /\ sel.account \in Indices(accounts)
                  /\ PassesLevel(FallbackLevels[k], sel.account, sel.modelId)
                  /\ \A stricter \in 1..(k - 1) :
                        \A j \in Indices(accounts) :
                            ~PassesLevel(FallbackLevels[stricter], j, sel.modelId)
    ]_vars

\* an unhealthy account with tokens was selected at the emergency level while
\* the other account, usable too, had no token
C4_Witness ==
    /\ selection # <<>>
    /\ selection[1].account # 0
    /\ selection[1].fallbackLevel = "emergency"
    /\ ~HealthIsUsable(health, selection[1].account)
    /\ \E j \in Indices(accounts) :
          /\ j # selection[1].account
          /\ isAccountUsable(accounts[j], selection[1].modelId, now)
          /\ ~hasTokens(buckets, j, now)

\* C5: selectAccount takes exactly one token, from the bucket of the account
\* it selected and from no other, when the fallback level is normal, quota or
\* emergency; it takes no token from any bucket when the level is lastResort.
C5_ConsumesOneTokenUnlessLastResort ==
    [][requests' # requests =>
        LET sel == selection'[1]
        IN  sel.account # 0 =>
              \A j \in Indices(accounts) :
                  getTokens(buckets', j, now) =
                      IF j = sel.account /\ sel.fallbackLevel # "lastResort"
                      THEN getTokens(buckets, j, now) - 1
                      ELSE getTokens(buckets, j, now)
    ]_vars

\* a selection at the quota level has left its account one token short of a
\* full bucket, and the other account's bucket full
C5_Witness ==
    /\ selection # <<>>
    /\ selection[1].account # 0
    /\ ~selection[1].reported
    /\ selection[1].fallbackLevel = "quota"
    /\ getTokens(buckets, selection[1].account, now) = MAX_TOKENS - 1
    /\ \E j \in Indices(accounts) :
          j # selection[1].account /\ getTokens(buckets, j, now) = MAX_TOKENS

\* C6: whenever some account is usable, health-usable, has tokens and is not
\* quota-critical for the model, selectAccount returns an account that is not
\* quota-critical for the model, whatever the score of a critical account.
C6_CriticalNeverPreferred ==
    [][requests' # requests =>
        LET sel == selection'[1]
        IN  (\E j \in Indices(accounts) : PassesLevel("normal", j, sel.modelId))
                => /\ sel.account # 0
                   /\ ~QuotaCriticalFor(accounts[sel.account], sel.modelId)
    ]_vars

\* the account selected was passed over a quota-critical one that is usable,
\* healthier, holds more tokens, has no less quota left and was never used
C6_Witness ==
    /\ selection # <<>>
    /\ selection[1].account # 0
    /\ ~selection[1].reported
    /\ ~QuotaCriticalFor(accounts[selection[1].account], selection[1].modelId)
    /\ \E j \in Indices(accounts) :
          /\ QuotaCriticalFor(accounts[j], selection[1].modelId)
          /\ isAccountUsable(accounts[j], selection[1].modelId, now)
          /\ HealthGetScore(health, j) > HealthGetScore(health, selection[1].account)
          /\ getTokens(buckets, j, now) > getTokens(buckets, selection[1].account, now) + 1
          /\ QuotaGetScore(accounts[j], selection[1].modelId)
                >= QuotaGetScore(accounts[selection[1].account], selection[1].modelId)
          /\ accounts[j].lastUsed = 0

\* the step in which selectAccount runs
SelectionStep == requests' = requests + 1

\* C23: when selectAccount returns an account, it is a candidate of the
\* fallback level chosen, no candidate of that level scores higher, every
\* candidate with the same score comes later in the accounts array, and the
\* index returned is the account's (zero-based) position in the array.
C23_BestCandidateFirstOnTie ==
    [][ (SelectionStep /\ selection'[1].account # 0) =>
          LET a == selection'[1].account
              m == selection'[1].modelId
              level == getCandidates(accounts, health, buckets, m, now)
              Score(i) == calculateScore(accounts, health, buckets, i, m, now)
          IN  /\ level.fallbackLevel = selection'[1].fallbackLevel
              /\ a \in level.candidates
              /\ \A j \in level.candidates :
                    /\ Score(j) <= Score(a)
                    /\ Score(j) = Score(a) => a <= j
              /\ selection'[1].index = a - 1
              /\ accounts'[a].email = accounts[a].email
      ]_vars

\* two accounts in the same condition were candidates and the first was taken
C23_Witness ==
    /\ selection # <<>>
    /\ requests = 1
    /\ now = StartTime
    /\ Len(accounts) = 2
    /\ selection[1].account = 1
    /\ selection[1].index = 0
    /\ selection[1].fallbackLevel = "normal"
    /\ health[1] = health[2]
    /\ accounts[1].quota = accounts[2].quota
    /\ accounts[1].quota["m1"] = Quota(90, FALSE)
    /\ accounts[2].lastUsed = 0
    /\ buckets[2].tokens = MAX_TOKENS
    /\ buckets[1].tokens = MAX_TOKENS - 1
    /\ ~accounts[2].isInvalid /\ accounts[2].enabled
    /\ ~accounts[2].modelRateLimits["m1"].present

\* the accounts without a token, and whether the lack of tokens is all that
\* stands in the way: every account usable and healthy, some without a token
TokenStarved(m) == {i \in Indices(accounts) : ~hasTokens(buckets, i, now)}

OnlyTokensBlock(m) ==
    /\ TokenStarved(m) # {}
    /\ \A i \in Indices(accounts) :
          isAccountUsable(accounts[i], m, now) /\ HealthIsUsable(health, i)

\* C24: when selectAccount finds no candidate at any fallback level (the
\* empty account list included) it returns account = null and index = 0,
\* with waitMs the minimum time until the next token over the token-starved
\* accounts when the lack of tokens is the only blocking reason, and
\* waitMs = 0 otherwise; and it leaves the accounts and the buckets alone.
C24_NoCandidate ==
    [][ (SelectionStep
           /\ ( Len(accounts) = 0
                \/ \E m \in Models :
                      /\ selection'[1].modelId = m
                      /\ getCandidates(accounts, health, buckets, m, now).candidates = {} ))
          => LET m == selection'[1].modelId
             IN  /\ selection'[1].account = 0
                 /\ selection'[1].index = 0
                 /\ selection'[1].waitMs =
                        IF Len(accounts) > 0 /\ OnlyTokensBlock(m)
                        THEN getMinTimeUntilToken(buckets, TokenStarved(m), now)
                        ELSE 0
                 /\ accounts' = accounts
                 /\ buckets' = buckets
      ]_vars

\* two accounts, neither usable for the model, one of them also out of
\* tokens: nothing is returned and no wait is reported
C24_Witness ==
    /\ selection # <<>>
    /\ Len(accounts) = 2
    /\ selection[1].account = 0
    /\ selection[1].index = 0
    /\ selection[1].waitMs = 0
    /\ \A i \in Indices(accounts) :
          ~isAccountUsable(accounts[i], selection[1].modelId, now)
    /\ \E i \in Indices(accounts) : buckets[i].tokens = 0

\* the step in which the caller's notification of the given kind is handled
NotificationStep(kind) ==
    IF selection = <<>> \/ selection' = <<>> THEN FALSE
    ELSE /\ ~selection[1].reported
         /\ selection'[1].reported
         /\ selection'[1].notification.kind = kind

OthersKept(e) ==
    /\ \A j \in DOMAIN health : j # e => health'[j] = health[j]
    /\ \A j \in DOMAIN buckets : j # e => buckets'[j] = buckets[j]

\* C25: onFailure for an account lowers that account's health by the failure
\* penalty (not below the minimum) and returns one token to its bucket (not
\* above the maximum); onSuccess raises its health by the success reward and
\* onRateLimit lowers it by the rate-limit penalty, and neither changes any
\* bucket; no notification changes another account's health or bucket, or
\* the account records; a notification for null or for an account without
\* email changes neither health nor buckets.
C25_Notifications ==
    [][ /\ NotificationStep("failure") =>
              LET e == selection'[1].notification.email
              IN  IF e = 0 THEN health' = health /\ buckets' = buckets
                  ELSE /\ health'[e] = Max(HEALTH_MIN, health[e] - HEALTH_FAILURE_PENALTY)
                       /\ buckets'[e].tokens
                              = Min(MAX_TOKENS, getTokens(buckets, e, now) + 1)
                       /\ OthersKept(e)
        /\ NotificationStep("success") =>
              LET e == selection'[1].notification.email
              IN  IF e = 0 THEN health' = health /\ buckets' = buckets
                  ELSE /\ health'[e] = Min(HEALTH_MAX, health[e] + HEALTH_SUCCESS_REWARD)
                       /\ buckets' = buckets
                       /\ OthersKept(e)
        /\ NotificationStep("rateLimit") =>
              LET e == selection'[1].notification.email
              IN  IF e = 0 THEN health' = health /\ buckets' = buckets
                  ELSE /\ health'[e] = Max(HEALTH_MIN, health[e] - HEALTH_RATE_LIMIT_PENALTY)
                       /\ buckets' = buckets
                       /\ OthersKept(e)
        /\ (NotificationStep("failure") \/ NotificationStep("success")
              \/ NotificationStep("rateLimit")) => accounts' = accounts
      ]_vars

\* the second of two accounts was selected, spent a token, failed and got
\* the token back
C25_Witness ==
    /\ selection # <<>>
    /\ Len(accounts) = 2
    /\ selection[1].notification = [kind |-> "failure", email |-> 2]
    /\ selection[1].fallbackLevel = "normal"
    /\ now = StartTime
    /\ health[2] = 100 - HEALTH_FAILURE_PENALTY
    /\ buckets[2].tokens = 1
    /\ buckets[1].tokens = 0

(***************************************************************************)
(* Claims about the model-validity cache, checked under SpecCache.         *)
(***************************************************************************)
\* C15: while a refresh started by populateModelCache is in flight, every
\* isValidModel call that arrives awaits that same refresh and starts no
\* fetchAvailableModels call, so at most one refresh is in flight at any
\* time, whatever the interleaving of the callers.
C15_SingleFlight ==
    /\ [](/\ Cardinality(inFlight) <= 1
          /\ modelCache.fetchPromise # 0 <=> inFlight # {}
          /\ \A c \in DOMAIN callers :
                callers[c].pc = "awaiting" =>
                    /\ callers[c].awaiting = modelCache.fetchPromise
                    /\ callers[c].awaiting \in inFlight)
    /\ [][inFlight # {} => fetches' = fetches]_vars

\* two calls await the one fetch that was started
C15_Witness ==
    /\ Len(callers) = 2
    /\ \A c \in DOMAIN callers : callers[c].pc = "awaiting"
    /\ fetches = 1
    /\ inFlight = {1}

\* C16: when the refresh a call awaited has failed (fetchAvailableModels
\* threw), isValidModel returns true for every model id, whatever the cache
\* held before the failed refresh.
C16_FailOpenAfterFailedRefresh ==
    \A c \in DOMAIN callers :
        (callers[c].pc = "done" /\ callers[c].refreshFailed) => callers[c].valid


(***************************************************************************)
(* Claims about callGenerateContent, checked under SpecCall and            *)
(* SpecCallFair.                                                           *)
(***************************************************************************)
\* the step in which a request rejects
RejectionStep ==
    /\ Len(upstreamCalls') = Len(upstreamCalls) + 1
    /\ ~upstreamCalls'[Len(upstreamCalls')].ok

\* the delay the statement prescribes for a rate-limit error at an attempt:
\* the upstream hint when there is a usable one, else the capped doubling
C17_Delay(error, n, t) ==
    IF parseRetryAfterMs(error, t) # NullNum
    THEN parseRetryAfterMs(error, t)
    ELSE Min(1000 * (2 ^ n), 15000)

\* C17: when a request fails with a rate-limit error and retries remain
\* (attempt < RATE_LIMIT_MAX_RETRIES), the delay is the upstream retry hint
\* when there is one and min(1000 * 2^attempt, 15000) otherwise; a delay of
\* at most 120000 ms is slept before the same endpoint is tried again, and a
\* longer one makes the call leave the endpoint at once, without sleeping;
\* every request goes to the endpoint the loop stands at, and the loop never
\* goes back to an endpoint it has left.
C17_BackoffDelay ==
    [][ /\ endpointIndex' >= endpointIndex
        /\ Len(upstreamCalls') > Len(upstreamCalls)
              => upstreamCalls'[Len(upstreamCalls')].endpoint = endpoints[endpointIndex]
        /\ (RejectionStep
              /\ isRateLimit(lastError'[1])
              /\ attempt < RATE_LIMIT_MAX_RETRIES)
              => IF C17_Delay(lastError'[1], attempt, now) > 120000
                 THEN /\ sleeps' = sleeps
                      /\ callState' # "sleeping"
                      /\ endpointIndex' = endpointIndex + 1
                 ELSE /\ sleeps' = Append(sleeps, C17_Delay(lastError'[1], attempt, now))
                      /\ callState' = "sleeping"
                      /\ endpointIndex' = endpointIndex
      ]_vars

\* the first endpoint is tried, sleeps the hinted 1500 ms, is left on a hint
\* of 200 s, and the second endpoint sleeps the first backoff step
C17_Witness ==
    /\ Len(upstreamCalls) = 3
    /\ sleeps = <<1500, 1000>>
    /\ upstreamCalls[2].failure[1].retryAfter = Seconds(200)
    /\ upstreamCalls[2].endpoint = endpoints[1]
    /\ upstreamCalls[3].endpoint = endpoints[2]
    /\ parseRetryAfterMs(upstreamCalls[3].failure[1], now) = NullNum

C18_Finished == callState \in {"returned", "thrown"}

\* C18: an invocation sends at most RATE_LIMIT_MAX_RETRIES + 1 = 3 requests
\* to each endpoint and at most 3 * (number of endpoints) in all; a request
\* succeeded exactly when the call has returned, and then it is the last
\* one sent; a call that has thrown throws the error of the last request;
\* and, every request settling and every sleep ending, the call finishes.
C18_BoundedAndTerminates ==
    /\ [](/\ \A i \in DOMAIN endpoints :
                Cardinality(CallsTo(i)) <= RATE_LIMIT_MAX_RETRIES + 1
          /\ \A i \in DOMAIN endpoints : Cardinality(CallsTo(i)) <= 3
          /\ Len(upstreamCalls) <= 3 * Len(endpoints)
          /\ \A k \in DOMAIN upstreamCalls :
                upstreamCalls[k].ok
                    <=> (callState = "returned" /\ k = Len(upstreamCalls))
          /\ callState = "returned" => upstreamCalls[Len(upstreamCalls)].ok
          /\ callState = "thrown"
                => /\ upstreamCalls # <<>>
                   /\ lastError = upstreamCalls[Len(upstreamCalls)].failure)
    /\ <>C18_Finished

\* three requests to each of the two endpoints, all rejected, and the last
\* error thrown
C18_Witness ==
    /\ callState = "thrown"
    /\ Len(upstreamCalls) = 6
    /\ Cardinality(CallsTo(1)) = 3
    /\ Cardinality(CallsTo(2)) = 3
    /\ Len(sleeps) = 4


(***************************************************************************)
(* Claims about the read loop line by line, checked under SpecLines.       *)
(***************************************************************************)
\* the generator's locals and the caches before the first line
FreshStreamState ==
    [hasEmittedStart |-> FALSE, blockIndex |-> 0, currentBlockType |-> Null,
     currentThinkingSignature |-> "", inputTokens |-> 0, outputTokens |-> 0,
     cacheReadTokens |-> 0, stopReason |-> Null, emitted |-> <<>>,
     signatureCache |-> <<>>, thinkingCache |-> {}, generated |-> 0]

\* the read loop over the lines ls, from the state s
RECURSIVE RunLines(_, _)
RunLines(s, ls) ==
    IF ls = <<>> THEN s
    ELSE RunLines(ProcessLine(s, Head(ls)), Tail(ls))

Unparseable(line) == line.kind = "malformed JSON"

Parseable(line) == ~Unparseable(line)

\* C19: at every point of a stream the translator state and the events
\* emitted are those of the same stream with every unparseable data: line
\* removed, and once the stream has ended so are the events and the outcome
\* (completed or EmptyResponseError); the step that reads an unparseable line
\* changes neither the translator state nor the outcome.
C19_MalformedLinesAreInert ==
    /\ [](LET ran == RunLines(FreshStreamState, SelectSeq(lines, Parseable))
          IN  IF outcome = "reading"
              THEN StreamState = ran
              ELSE /\ StreamState = FinishStream(ran).state
                   /\ outcome = FinishStream(ran).outcome)
    /\ [][ (Len(lines') > Len(lines) /\ Unparseable(lines'[Len(lines')]))
              => (StreamState' = StreamState /\ outcome' = outcome) ]_vars

\* a thinking chunk, an unparseable line, a text chunk, and the stream ends
C19_Witness ==
    /\ outcome = "completed"
    /\ Len(lines) = 3
    /\ lines[1].parts = <<ThoughtLong>>
    /\ Unparseable(lines[2])
    /\ lines[3].parts = <<TextPart>>
    /\ Len(emitted) > 4

LineHasCall(line) ==
    \E j \in DOMAIN line.parts : IsCallPart(line.parts[j])

LineIsRecognised(line) ==
    line.kind = "data" /\ line.finishReason \in {"MAX_TOKENS", "STOP"}

\* the stop reason the statement prescribes for the lines read
C20_StopReason ==
    IF \E i \in DOMAIN lines : LineHasCall(lines[i])
    THEN "tool_use"
    ELSE IF \E i \in DOMAIN lines : LineIsRecognised(lines[i])
    THEN LET first == CHOOSE i \in DOMAIN lines :
                          /\ LineIsRecognised(lines[i])
                          /\ \A j \in 1..(i - 1) : ~LineIsRecognised(lines[j])
         IN  IF lines[first].finishReason = "MAX_TOKENS"
             THEN "max_tokens" ELSE "end_turn"
    ELSE "end_turn"

\* C20: the last event but one of a completed stream is a message_delta
\* whose stop_reason is tool_use if a functionCall part was translated, else
\* max_tokens or end_turn as the first recognised finishReason was
\* MAX_TOKENS or STOP, else end_turn; and a line without a functionCall part
\* read when a stop reason is set leaves the stop reason as it is.
C20_StopReasonOfStream ==
    /\ [](outcome = "completed"
            => /\ Len(emitted) >= 2
               /\ emitted[Len(emitted) - 1].type = "message_delta"
               /\ emitted[Len(emitted) - 1].stop_reason = C20_StopReason
               /\ \A k \in 1..(Len(emitted) - 2) :
                     emitted[k].type # "message_delta")
    /\ [][ (Len(lines') > Len(lines)
              /\ stopReason # Null
              /\ ~LineHasCall(lines'[Len(lines')]))
              => stopReason' = stopReason ]_vars

\* MAX_TOKENS is seen first, STOP after it, and no tool is called
C20_Witness ==
    /\ outcome = "completed"
    /\ Len(lines) = 3
    /\ lines[1].finishReason = "SAFETY"
    /\ lines[2].finishReason = "MAX_TOKENS"
    /\ lines[3].finishReason = "STOP"
    /\ \A i \in DOMAIN lines : ~LineHasCall(lines[i])
    /\ emitted[Len(emitted) - 1].stop_reason = "max_tokens"


(***************************************************************************)
(* Claims about the batch translation, checked under SpecBatch.            *)
(***************************************************************************)
\* a part that carries text and nothing else
IsPlainTextPart(part) ==
    /\ part.isObject /\ ~part.thought /\ part.text # Undefined
    /\ part.functionCall = <<>> /\ part.inlineData = <<>>

\* the translation went through convertGoogleToAnthropic
ThroughConverter ==
    batch.parser \in {"convertGoogleToAnthropic", "parseThinkingSSEResponse"}

\* C21: when convertGoogleToAnthropic has translated an upstream response
\* whose first candidate holds exactly one plain-text part, the result has a
\* content property that is a single block {type: "text", text} whose text is
\* the upstream text.
C21_OneTextPartOneTextBlock ==
    ( /\ batch.pc = "returned"
      /\ ThroughConverter
      /\ Len(batch.given) = 1
      /\ Len(batch.given[1].parts) = 1
      /\ IsPlainTextPart(batch.given[1].parts[1])
      /\ batch.given[1].parts[1].text # "" )
        => Property(batch.result[1], "content")
               = << <<[type |-> "text", text |-> batch.given[1].parts[1].text]>> >>

\* the content parts of the response a translation returned
ReturnedParts == batch.result[1].candidates[1].content.parts

\* C22: a batch translation that produced no content part does not return
\* a response (it signals EmptyResponse instead): whenever one has returned,
\* the response it returned holds at least one part.
C22_EmptyResponseIsSignalled ==
    batch.pc = "returned" => ReturnedParts # <<>>

(***************************************************************************)
(* Claims about the events of streamSSEResponse as a whole.                *)
(***************************************************************************)
IsMessageStart(ev) == ev.type = "message_start"

IsMessageDelta(ev) == ev.type = "message_delta"

IsMessageStop(ev) == ev.type = "message_stop"

IsBlockStart(ev) == ev.type = "content_block_start"

\* the step on which the read loop ends
EndStep == outcome = "reading" /\ outcome' # "reading"

\* what the end of the input adds for the block that is open, if any
C27_Closing ==
    IF currentBlockType = Null THEN <<>>
    ELSE (IF currentBlockType = "thinking" /\ currentThinkingSignature # ""
          THEN <<BlockDelta(blockIndex, "signature_delta",
                            currentThinkingSignature)>>
          ELSE <<>>) \o <<BlockStop(blockIndex)>>

\* C27: when message_start has been emitted, the end of the input adds the
\* close of the open block if any (after a signature_delta when it is a
\* thinking block with a pending signature), then one message_delta with
\* the resolved stop reason and the output and cache token counts, then one
\* message_stop; a completed stream holds exactly one message_delta and one
\* message_stop, the latter last, and nothing is emitted after it.
C27_StreamEnd ==
    /\ [][ (EndStep /\ hasEmittedStart) =>
              /\ outcome' = "completed"
              /\ emitted' = emitted \o C27_Closing \o
                    <<MessageDelta(IF stopReason # Null THEN stopReason
                                   ELSE "end_turn",
                                   outputTokens, cacheReadTokens),
                      MessageStop>> ]_vars
    /\ [][ outcome # "reading" => emitted' = emitted ]_vars
    /\ [](outcome = "completed" =>
             /\ Len(SelectSeq(emitted, IsMessageDelta)) = 1
             /\ Len(SelectSeq(emitted, IsMessageStop)) = 1
             /\ IsMessageStop(emitted[Len(emitted)])
             /\ IsMessageDelta(emitted[Len(emitted) - 1]))
    /\ [](outcome = "reading" =>
             /\ SelectSeq(emitted, IsMessageDelta) = <<>>
             /\ SelectSeq(emitted, IsMessageStop) = <<>>)

\* the stream ended inside a thinking block whose signature was pending
C27_Witness ==
    /\ outcome = "completed"
    /\ Len(emitted) >= 6
    /\ LET n == Len(emitted)
       IN  /\ emitted[n - 3].type = "content_block_delta"
           /\ emitted[n - 3].delta = "signature_delta"
           /\ emitted[n - 2].type = "content_block_stop"
           /\ emitted[n - 1].type = "message_delta"
           /\ emitted[n - 1].stop_reason = "max_tokens"
           /\ emitted[n - 1].output_tokens = 5

\* the delta types a block of the given type may carry
DeltaTypes(blockType) ==
    CASE blockType = "thinking" -> {"thinking_delta", "signature_delta"}
      [] blockType = "text" -> {"text_delta"}
      [] blockType = "tool_use" -> {"input_json_delta"}
      [] OTHER -> {}

NoBlock == <<>>

\* Reads the events in order with the block that is open, <<>> when none
\* is: ok is FALSE as soon as a block starts inside another, a stop or a
\* delta comes outside a block or with another index, a delta has a type the
\* block does not carry, or message_delta comes inside a block.
RECURSIVE Bracketing(_, _)
Bracketing(events, open) ==
    IF events = <<>> THEN [ok |-> TRUE, open |-> open]
    ELSE LET ev == Head(events)
             rest == Tail(events)
             bad == [ok |-> FALSE, open |-> open]
         IN  IF ev.type = "content_block_start"
             THEN IF open = NoBlock
                  THEN Bracketing(rest, <<[index |-> ev.index,
                                           type |-> ev.content_block.type]>>)
                  ELSE bad
             ELSE IF ev.type = "content_block_stop"
             THEN IF open # NoBlock
                  THEN IF open[1].index = ev.index
                       THEN Bracketing(rest, NoBlock)
                       ELSE bad
                  ELSE bad
             ELSE IF ev.type = "content_block_delta"
             THEN IF open # NoBlock
                  THEN IF /\ open[1].index = ev.index
                          /\ ev.delta \in DeltaTypes(open[1].type)
                       THEN Bracketing(rest, open)
                       ELSE bad
                  ELSE bad
             ELSE IF ev.type = "message_delta"
             THEN IF open = NoBlock THEN Bracketing(rest, open) ELSE bad
             ELSE Bracketing(rest, open)

\* C28: in every reachable state the events emitted so far are bracketed:
\* at most one block is open; a content_block_start of index i is followed
\* by one content_block_stop of index i before any other start and before
\* message_delta; every delta lies inside the open block, carries its index
\* and has a delta type of that block (none for an image block).  While the
\* stream is read the open block is the one the translator holds, and a
\* completed stream leaves no block open.
C28_BlockBracketing ==
    LET r == Bracketing(emitted, NoBlock)
    IN  /\ r.ok
        /\ outcome = "completed" => r.open = NoBlock
        /\ outcome = "reading" =>
              IF currentBlockType = Null THEN r.open = NoBlock
              ELSE r.open = <<[index |-> blockIndex, type |-> currentBlockType]>>

\* a thinking block with its signature, an image block and a text block
C28_Witness ==
    /\ outcome = "completed"
    /\ consumed = <<ThoughtLong, ImagePart, TextPart>>
    /\ Len(SelectSeq(emitted, IsBlockStart)) = 3

\* the block a part belongs to, "" for a part that opens and feeds none
PartKind(part) ==
    IF ~part.isObject THEN ""
    ELSE IF part.thought THEN "thinking"
    ELSE IF part.text # Undefined THEN (IF part.text = "" THEN "" ELSE "text")
    ELSE IF part.functionCall # <<>> THEN "tool_use"
    ELSE IF part.inlineData # <<>> THEN "image"
    ELSE ""

\* the types of the blocks the statement prescribes for the parts, `last`
\* being the type of the block still open: a thought or text part after one
\* of its own kind stays in the block, every other part opens a block
RECURSIVE C29_Blocks(_, _)
C29_Blocks(parts, last) ==
    IF parts = <<>> THEN <<>>
    ELSE LET kind == PartKind(Head(parts))
         IN  IF kind = "" THEN C29_Blocks(Tail(parts), last)
             ELSE IF kind \in {"thinking", "text"} /\ kind = last
             THEN C29_Blocks(Tail(parts), last)
             ELSE <<kind>> \o C29_Blocks(Tail(parts),
                                         IF kind = "image" THEN "" ELSE kind)

BlockStarts == SelectSeq(emitted, IsBlockStart)

\* C29: the indices of the successive content_block_start events are
\* 0, 1, 2, ... with no gap and no repeat, and the blocks are those of the
\* parts read: one per functionCall part and per inline image, one per run
\* of consecutive thought parts and per run of consecutive text parts.
C29_BlockIndices ==
    /\ \A k \in DOMAIN BlockStarts : BlockStarts[k].index = k - 1
    /\ [k \in DOMAIN BlockStarts |-> BlockStarts[k].content_block.type]
          = C29_Blocks(consumed, "")

\* two functionCall parts in a row, then an image
C29_Witness ==
    /\ outcome = "completed"
    /\ consumed = <<CallIdSig, CallNoSig, ImagePart>>
    /\ Len(BlockStarts) = 3
    /\ BlockStarts[3].index = 2

\* a chunk whose first candidate carries a non-empty parts array
IsContentLine(line) == line.kind = "data" /\ Len(line.parts) > 0

ContentLines == {k \in DOMAIN lines : IsContentLine(lines[k])}

\* the count `field` as known once line k is read: that of the last chunk
\* up to k that reports one, 0 when none does
KnownCount(field, k) ==
    LET S == {j \in 1..k : lines[j].kind = "data" /\ lines[j].usage[field] # 0}
    IN  IF S = {} THEN 0
        ELSE lines[CHOOSE j \in S : \A i \in S : i <= j].usage[field]

\* C30: message_start is emitted at most once, and exactly once in a
\* completed stream; it is the first event, emitted on the first chunk
\* whose first candidate carries a non-empty parts array, with input_tokens
\* the prompt token count less the cached token count and
\* cache_read_input_tokens the cached token count, both as known when that
\* chunk is read; until such a chunk is read nothing is emitted.
C30_MessageStart ==
    /\ [](IF ContentLines = {}
          THEN emitted = <<>> /\ ~hasEmittedStart /\ outcome # "completed"
          ELSE LET k == CHOOSE j \in ContentLines :
                            \A i \in ContentLines : j <= i
                   prompt == KnownCount("promptTokenCount", k)
                   cached == KnownCount("cachedContentTokenCount", k)
               IN  /\ hasEmittedStart
                   /\ Len(SelectSeq(emitted, IsMessageStart)) = 1
                   /\ IsMessageStart(emitted[1])
                   /\ emitted[1].input_tokens = prompt - cached
                   /\ emitted[1].cache_read_input_tokens = cached)
    /\ [][ (Len(lines') > Len(lines) /\ ~hasEmittedStart) =>
              IF IsContentLine(lines'[Len(lines')])
              THEN hasEmittedStart' /\ IsMessageStart(emitted'[1])
              ELSE ~hasEmittedStart' /\ emitted' = <<>> ]_vars

\* the prompt count comes in a chunk without parts, the first parts in a
\* chunk without usage, and the cached count only after message_start
C30_Witness ==
    /\ outcome = "completed"
    /\ Len(lines) = 3
    /\ lines[1] = Line("data", EarlyUsage, <<>>, "")
    /\ lines[2] = Line("data", NoUsage, <<TextPart>>, "")
    /\ lines[3].usage = SomeUsage
    /\ emitted[1].input_tokens = 10
    /\ emitted[1].cache_read_input_tokens = 0

IsSignatureDelta(ev) ==
    ev.type = "content_block_delta" /\ ev.delta = "signature_delta"

IsThinkingStart(ev) ==
    ev.type = "content_block_start" /\ ev.content_block.type = "thinking"

\* For each thinking block the parts open, in order: the last continuation
\* signature of at least MIN_SIGNATURE_LENGTH among the thought parts of the
\* block, "" when it has none.  `open` tells whether a thinking block is
\* open and `sig` is its signature so far.
RECURSIVE C31_Signatures(_, _, _)
C31_Signatures(parts, open, sig) ==
    IF parts = <<>> THEN (IF open THEN <<sig>> ELSE <<>>)
    ELSE LET part == Head(parts)
             kind == PartKind(part)
         IN  IF kind = "" THEN C31_Signatures(Tail(parts), open, sig)
             ELSE IF kind = "thinking"
             THEN C31_Signatures(Tail(parts), TRUE,
                      IF Len(part.thoughtSignature) >= MIN_SIGNATURE_LENGTH
                      THEN part.thoughtSignature
                      ELSE IF open THEN sig ELSE "")
             ELSE (IF open THEN <<sig>> ELSE <<>>)
                      \o C31_Signatures(Tail(parts), FALSE, "")

ThinkingStarts == SelectSeq(emitted, IsThinkingStart)

\* the positions in `emitted` of the signature_delta events of block i
SignatureDeltasOf(i) ==
    {p \in DOMAIN emitted :
        IsSignatureDelta(emitted[p]) /\ emitted[p].index = i}

BlockIsClosed(i) ==
    \E p \in DOMAIN emitted :
        emitted[p].type = "content_block_stop" /\ emitted[p].index = i

\* C31: a signature_delta lies in a thinking block only; a closed thinking
\* block holds exactly one when a continuation signature of sufficient
\* length came within it, carrying the last such signature and standing
\* immediately before the block's content_block_stop, and none otherwise; a
\* thinking block still open holds none yet, so no signature reaches a
\* later block.
C31_SignatureFlush ==
    LET expected == C31_Signatures(consumed, FALSE, "")
    IN  /\ Len(ThinkingStarts) = Len(expected)
        /\ \A p \in DOMAIN emitted :
              IsSignatureDelta(emitted[p]) =>
                  \E k \in DOMAIN ThinkingStarts :
                      ThinkingStarts[k].index = emitted[p].index
        /\ \A k \in DOMAIN ThinkingStarts :
              LET i == ThinkingStarts[k].index
                  at == SignatureDeltasOf(i)
              IN  IF expected[k] # "" /\ BlockIsClosed(i)
                  THEN /\ Cardinality(at) = 1
                       /\ \A p \in at :
                             /\ emitted[p].payload = expected[k]
                             /\ emitted[p + 1].type = "content_block_stop"
                             /\ emitted[p + 1].index = i
                  ELSE at = {}

\* two signatures in one thinking block, the second is flushed before text
C31_Witness ==
    /\ consumed = <<ThoughtLong, ThoughtAgain, TextPart>>
    /\ \E p \in DOMAIN emitted :
          /\ IsSignatureDelta(emitted[p])
          /\ emitted[p].payload = SigB
          /\ emitted[p + 1].type = "content_block_stop"

(***************************************************************************)
(* The read loop byte by byte: reader.read(), TextDecoder.decode with      *)
(* {stream: true}, buffer.split('\n') and the carried last piece.          *)
(*                                                                         *)
(* A byte is "p", "q" (together the prefix data:), "a", "t" (JSON text),   *)
(* "e1", "e2" (the two bytes of one character, written "E" once decoded)   *)
(* or "\n".  "?" is U+FFFD.                                                *)
(***************************************************************************)
\* Lines of one response body.
MaxBodyLines == 2

\* data: and a JSON chunk with one text part, its last character two bytes
TextChunkBytes == <<"p", "q", "a", "e1", "e2">>

\* data: and a JSON chunk with one thought part
ThoughtChunkBytes == <<"p", "q", "t">>

\* data: and JSON text cut short
CutChunkBytes == <<"p", "q", "a">>

LineTexts == {TextChunkBytes, ThoughtChunkBytes, CutChunkBytes, <<>>}

\* the lines joined by "\n", the last one terminated or not
RECURSIVE Join(_, _)
Join(ls, terminated) ==
    IF ls = <<>> THEN <<>>
    ELSE IF Len(ls) = 1
    THEN Head(ls) \o (IF terminated THEN <<"\n">> ELSE <<>>)
    ELSE Head(ls) \o <<"\n">> \o Join(Tail(ls), terminated)

Bodies ==
    {Join(ls, terminated) :
        ls \in SeqsUpTo(LineTexts, MaxBodyLines), terminated \in BOOLEAN}

DecodeWithoutStream(pending, value) ==
    LET F[k \in 0..Len(value)] ==
            IF k = 0 THEN <<>>
            ELSE IF value[k] = "e2" /\ k > 1 /\ value[k - 1] = "e1"
            THEN SubSeq(F[k - 1], 1, Len(F[k - 1]) - 1) \o <<"E">>
            ELSE IF value[k] \in {"e1", "e2"} THEN Append(F[k - 1], "?")
            ELSE Append(F[k - 1], value[k])
    IN  [chars |-> F[Len(value)], pending |-> <<>>]

\* decoder.decode(value, {stream: true}): the characters of the bytes the
\* decoder holds followed by value; an incomplete character at the end is
\* held back for the next call, a malformed one becomes U+FFFD
RECURSIVE DecodeBytes(_)
DecodeBytes(bytes) ==
    IF bytes = <<>> THEN [chars |-> <<>>, pending |-> <<>>]
    ELSE IF Head(bytes) = "e1"
    THEN IF Len(bytes) = 1 THEN [chars |-> <<>>, pending |-> bytes]
         ELSE IF bytes[2] = "e2"
         THEN LET r == DecodeBytes(SubSeq(bytes, 3, Len(bytes)))
              IN  [chars |-> <<"E">> \o r.chars, pending |-> r.pending]
         ELSE LET r == DecodeBytes(Tail(bytes))
              IN  [chars |-> <<"?">> \o r.chars, pending |-> r.pending]
    ELSE LET r == DecodeBytes(Tail(bytes))
         IN  [chars |-> <<IF Head(bytes) = "e2" THEN "?" ELSE Head(bytes)>>
                            \o r.chars,
              pending |-> r.pending]

Decode(pending, value) == DecodeBytes(pending \o value)

\* text.split('\n'): the pieces between the newlines, one more than there
\* are newlines
RECURSIVE Split(_)
Split(text) ==
    IF text = <<>> THEN << <<>> >>
    ELSE LET r == Split(Tail(text))
         IN  IF Head(text) = "\n" THEN << <<>> >> \o r
             ELSE << <<Head(text)>> \o Head(r) >> \o Tail(r)

\* lines.pop() taken off: every piece but the last
AllButLast(pieces) == SubSeq(pieces, 1, Len(pieces) - 1)

Last(pieces) == pieces[Len(pieces)]

\* what the loop body makes of a line of text: startsWith('data:'),
\* slice(5).trim(), JSON.parse
LineOf(text) ==
    IF Len(text) < 2 THEN SkippedLineOf("no data: prefix")
    ELSE IF text[1] # "p" \/ text[2] # "q" THEN SkippedLineOf("no data: prefix")
    ELSE LET jsonText == SubSeq(text, 3, Len(text))
         IN  IF jsonText = <<>> THEN SkippedLineOf("empty payload")
             ELSE IF jsonText = <<"a", "E">>
             THEN Line("data", SomeUsage, <<TextPart>>, "STOP")
             ELSE IF jsonText = <<"t">>
             THEN Line("data", EarlyUsage, <<ThoughtLong>>, "")
             ELSE SkippedLineOf("malformed JSON")

LinesOf(texts) == [k \in DOMAIN texts |-> LineOf(texts[k])]

RECURSIVE PartsOf(_)
PartsOf(ls) == IF ls = <<>> THEN <<>> ELSE Head(ls).parts \o PartsOf(Tail(ls))

\* streamSSEResponse(response, model) is called: without a body it throws
StreamResponse ==
    /\ ~wire.called
    /\ outcome = "reading"
    /\ \/ /\ \E body \in Bodies :
                wire' = [wire EXCEPT !.called = TRUE, !.response = body]
          /\ UNCHANGED outcome
       \/ /\ wire' = [wire EXCEPT !.called = TRUE]
          /\ outcome' = "EmptyResponseError"
    /\ UNCHANGED <<hasEmittedStart, blockIndex, currentBlockType,
                   currentThinkingSignature, inputTokens, outputTokens,
                   cacheReadTokens, stopReason, emitted, signatureCache,
                   thinkingCache, generated, consumed, lines, batch,
                   poolVars, strategyVars, cacheVars, apiVars>>

\* one pass of `while (true)`: reader.read() gives the next n bytes
Read ==
    /\ wire.called
    /\ outcome = "reading"
    /\ \E n \in 1..(Len(wire.response) - wire.pos) :
           LET value == SubSeq(wire.response, wire.pos + 1, wire.pos + n)
               decoded == Decode(wire.pending, value)
               pieces == Split(wire.buffer \o decoded.chars)
               complete == LinesOf(AllButLast(pieces))
           IN  /\ wire' = [wire EXCEPT !.pos = @ + n,
                                       !.reads = @ + 1,
                                       !.buffer = Last(pieces),
                                       !.pending = decoded.pending]
               /\ Install(RunLines(StreamState, complete))
               /\ lines' = lines \o complete
               /\ consumed' = consumed \o PartsOf(complete)
    /\ UNCHANGED <<outcome, batch, poolVars, strategyVars, cacheVars, apiVars>>

\* reader.read() reports done once the whole body was delivered
EndOfBody ==
    /\ wire.called
    /\ wire.pos = Len(wire.response)
    /\ EndOfStream

ReadsNext == StreamResponse \/ Read \/ EndOfBody

InitReads == StreamInit /\ PoolIdle /\ StrategyIdle /\ CacheIdle /\ ApiIdle

SpecReads == InitReads /\ [][ReadsNext]_vars

(***************************************************************************)
(* Claims about the read loop, checked under SpecReads.                    *)
(***************************************************************************)
\* the bytes delivered so far
Delivered == SubSeq(wire.response, 1, wire.pos)

\* the newline-terminated lines of the bytes, decoded in one piece
TerminatedLines(bytes) == LinesOf(AllButLast(Split(DecodeBytes(bytes).chars)))

\* C32: whatever the reads, the lines translated are the terminated lines of
\* the bytes delivered so far, each once and whole, and the translator state
\* and events are those of translating these lines in order; so the events
\* of a response are the same however its bytes are split into reads.
C32_ReadBoundaryIndependence ==
    wire.called =>
        LET ls == TerminatedLines(Delivered)
            ran == RunLines(FreshStreamState, ls)
        IN  /\ lines = ls
            /\ IF outcome = "reading" THEN StreamState = ran
               ELSE /\ StreamState = FinishStream(ran).state
                    /\ outcome = FinishStream(ran).outcome

\* a thought chunk and a text chunk delivered one byte per read, so that
\* both data: lines and the two-byte character are cut across reads
C32_Witness ==
    /\ outcome = "completed"
    /\ wire.response = Join(<<ThoughtChunkBytes, TextChunkBytes>>, TRUE)
    /\ wire.reads = Len(wire.response)
    /\ consumed = <<ThoughtLong, TextPart>>

IsDataLine(line) == line.kind = "data"

\* C36: when the stream has ended, every data: line of the body that
\* carries a JSON chunk has been translated, the last line included when
\* no newline terminates it.
C36_NoDataLineDropped ==
    (wire.called /\ wire.response # <<>> /\ outcome # "reading") =>
        SelectSeq(lines, IsDataLine)
            = SelectSeq(LinesOf(Split(DecodeBytes(wire.response).chars)),
                        IsDataLine)

(***************************************************************************)
(* Further claims about callGenerateContent, checked under SpecCall.       *)
(***************************************************************************)
\* the position in `endpoints` of the endpoint the k-th request went to
EndpointOf(k) ==
    CHOOSE i \in DOMAIN endpoints : endpoints[i] = upstreamCalls[k].endpoint

\* a rate-limit error as the statement means it: status 429, or an error
\* text that names an exhausted resource or quota or a rate limit
C33_RateLimited(error) ==
    \/ error.status = 429
    \/ error.marks \cap {"resource_exhausted", "quota_exhausted", "rate limit"} # {}

\* C33: the requests go to the endpoints in the order resolveEndpoints gave,
\* starting with the first; a request goes to the next endpoint only when
\* the request before it failed on the endpoint before it; a rejection that
\* is not a rate limit ends the attempts on its endpoint at once, without a
\* sleep; no request follows a success; and a call that throws throws the
\* error of the last request made.
C33_FailoverOrder ==
    /\ [](/\ callState # "idle" =>
                endpoints \in {resolveEndpoints(pr) : pr \in Preferences}
          /\ upstreamCalls # <<>> => EndpointOf(1) = 1
          /\ \A k \in 2..Len(upstreamCalls) :
                /\ ~upstreamCalls[k - 1].ok
                /\ EndpointOf(k) \in {EndpointOf(k - 1), EndpointOf(k - 1) + 1}
                /\ ~C33_RateLimited(upstreamCalls[k - 1].failure[1])
                      => EndpointOf(k) = EndpointOf(k - 1) + 1
          /\ callState = "thrown" =>
                /\ \A i \in DOMAIN endpoints : CallsTo(i) # {}
                /\ lastError = upstreamCalls[Len(upstreamCalls)].failure)
    /\ [][ (RejectionStep
              /\ ~C33_RateLimited(upstreamCalls'[Len(upstreamCalls')].failure[1]))
              => /\ sleeps' = sleeps
                 /\ callState' # "sleeping"
                 /\ endpointIndex' = endpointIndex + 1 ]_vars
    /\ [][ callState = "returned" => upstreamCalls' = upstreamCalls ]_vars

\* the daily endpoint first: one rejection that is not a rate limit on each
\* endpoint, no sleep, and the second error is thrown
C33_Witness ==
    /\ callState = "thrown"
    /\ endpoints = resolveEndpoints("daily")
    /\ Len(upstreamCalls) = 2
    /\ upstreamCalls[1].endpoint = ANTIGRAVITY_ENDPOINT_DAILY
    /\ upstreamCalls[1].failure[1].status = 500
    /\ upstreamCalls[2].endpoint = ANTIGRAVITY_ENDPOINT_PROD
    /\ upstreamCalls[2].failure[1].status = 500
    /\ sleeps = <<>>

\* C38: every delay handed to sleep before a retry lies in [0, 120000] ms,
\* whatever retry hint the rejection carries.
C38_SleepBound ==
    \A k \in DOMAIN sleeps : 0 <= sleeps[k] /\ sleeps[k] <= 120000

(***************************************************************************)
(* Further claims about HybridStrategy, checked under SpecSelect.          *)
(***************************************************************************)
\* C34: a selection that returns an account stamps lastUsed = now on that
\* account and changes nothing else of it, changes no other account and no
\* other account's bucket, and calls onSave; a selection that returns null
\* changes no account and no bucket and does not call onSave; no time passes
\* within a selection and no health score changes.
C34_SelectionFrame ==
    [][SelectionStep =>
        LET r == selection'[1]
        IN  /\ now' = now
            /\ health' = health
            /\ Len(accounts') = Len(accounts)
            /\ IF r.account # 0
               THEN /\ accounts' = [accounts EXCEPT ![r.account].lastUsed = now]
                    /\ r.saved
                    /\ \A j \in Indices(accounts) \ {r.account} :
                          buckets'[j] = buckets[j]
               ELSE /\ accounts' = accounts
                    /\ buckets' = buckets
                    /\ ~r.saved]_vars

\* the second account is selected, stamped and charged a token beside a
\* first account that is rate-limited and keeps its lastUsed and tokens
C34_Witness ==
    /\ selection # <<>>
    /\ Len(accounts) = 2
    /\ selection[1].account = 2
    /\ accounts[2].lastUsed = now
    /\ accounts[1].lastUsed = 0
    /\ accounts[1].modelRateLimits["m1"].isRateLimited
    /\ buckets[2].tokens = MAX_TOKENS - 1
    /\ buckets[1].tokens = MAX_TOKENS

\* C37: when onFailure is reported for the account a selection picked, with
\* no refill between the two, the account's token count is again what it was
\* before the selection, at every fallback level.
C37_SelectThenFailBalance ==
    [][ (/\ NotificationStep("failure")
         /\ selection[1].account # 0
         /\ selection'[1].notification.email = selection[1].account
         /\ accounts[selection[1].account].lastUsed = now)
            => getTokens(buckets', selection[1].account, now)
                   = selection[1].tokensBefore ]_vars

\* C35: every stream that completes, with message_delta and message_stop,
\* holds at least one content_block_start.
C35_NoEmptySuccess ==
    outcome = "completed" => SelectSeq(emitted, IsBlockStart) # <<>>

(***************************************************************************)
(* Further claims about the batch translation, checked under SpecBatch.    *)
(***************************************************************************)
\* what an accumulating parser takes a part for; "" for an entry that is not
\* an object, an empty text, or a part of no known kind
BatchKind(part) ==
    IF ~part.isObject THEN ""
    ELSE IF part.thought THEN "thinking"
    ELSE IF part.functionCall # <<>> THEN "call"
    ELSE IF part.text # Undefined THEN (IF part.text = "" THEN "" ELSE "text")
    ELSE IF part.inlineData # <<>> THEN "image"
    ELSE ""

\* a part as the statement looks at it: a thought or text part by its text,
\* a functionCall or inlineData part as it is
Merged(kind, text) == [kind |-> kind, text |-> text, part |-> NonObject]

PassedThrough(part) == [kind |-> BatchKind(part), text |-> "", part |-> part]

ViewOf(part) ==
    IF BatchKind(part) \in {"call", "image"} THEN PassedThrough(part)
    ELSE Merged(IF part.thought THEN "thinking" ELSE "text", part.text)

\* the run that closes: one merged part; when keepEmpty is FALSE a run whose
\* concatenated text is empty gives no part
RunClosed(kind, text, keepEmpty) ==
    IF kind = "" THEN <<>>
    ELSE IF text = "" /\ ~keepEmpty THEN <<>>
    ELSE <<Merged(kind, text)>>

\* The upstream parts in order, each maximal run of thought parts and each
\* maximal run of non-empty text parts merged into one part, functionCall
\* and inlineData parts in place.
RECURSIVE C39_Merge(_, _, _, _)
C39_Merge(parts, kind, text, keepEmpty) ==
    IF parts = <<>> THEN RunClosed(kind, text, keepEmpty)
    ELSE LET part == Head(parts)
             k == BatchKind(part)
         IN  IF k = "" THEN C39_Merge(Tail(parts), kind, text, keepEmpty)
             ELSE IF k \in {"thinking", "text"}
             THEN IF k = kind
                  THEN C39_Merge(Tail(parts), kind, text \o TextOf(part), keepEmpty)
                  ELSE RunClosed(kind, text, keepEmpty)
                           \o C39_Merge(Tail(parts), k, TextOf(part), keepEmpty)
             ELSE RunClosed(kind, text, keepEmpty) \o <<PassedThrough(part)>>
                      \o C39_Merge(Tail(parts), "", "", keepEmpty)

\* the content parts of the chunks an accumulating parser was given
GivenParts == PartsOf(SelectSeq(batch.given, IsDataLine))

\* the parts pushed so far, then what the accumulators hold
AccumulatedSoFar ==
    [k \in DOMAIN batch.finalParts |-> ViewOf(batch.finalParts[k])]
        \o (IF batch.accumulatedThinkingText # ""
            THEN <<Merged("thinking", batch.accumulatedThinkingText)>> ELSE <<>>)
        \o (IF batch.accumulatedText # ""
            THEN <<Merged("text", batch.accumulatedText)>> ELSE <<>>)

OneAccumulatorAtMost ==
    ~(batch.accumulatedThinkingText # "" /\ batch.accumulatedText # "")

\* C39 as stated: every maximal run of thought parts gives one thought part
C39_AsStated ==
    /\ OneAccumulatorAtMost
    /\ (batch.pc = "returned" /\ batch.parser \in Parsers) =>
          [k \in DOMAIN ReturnedParts |-> ViewOf(ReturnedParts[k])]
              = C39_Merge(GivenParts, "", "", TRUE)

\* C39: at every step at most one of the two accumulators is non-empty, and
\* the parts pushed and accumulated so far, like the parts returned in the
\* end, are the upstream parts in order with each maximal run of thought
\* parts merged into one thought part of the concatenated text, unless that
\* text is empty, when the run gives no part, each maximal run of non-empty
\* text parts merged into one text part, and functionCall and inlineData
\* parts unchanged in place.
C39_AccumulatorMerges ==
    /\ OneAccumulatorAtMost
    /\ batch.pc = "reading" =>
          AccumulatedSoFar = C39_Merge(GivenParts, "", "", FALSE)
    /\ (batch.pc = "returned" /\ batch.parser \in Parsers) =>
          [k \in DOMAIN ReturnedParts |-> ViewOf(ReturnedParts[k])]
              = C39_Merge(GivenParts, "", "", FALSE)

\* two text parts in one chunk and a third in the next are returned as one
C39_Witness ==
    /\ batch.pc = "returned"
    /\ batch.parser \in Parsers
    /\ GivenParts = <<TextPart, TextPart, TextPart>>
    /\ Len(ReturnedParts) = 1
    /\ ReturnedParts[1].text = "hellohellohello"

(***************************************************************************)
(* Further claims about the model-validity cache, checked under            *)
(* SpecCacheFair.                                                          *)
(***************************************************************************)
\* the cache is non-empty and younger than the time-to-live
C40_Fresh ==
    /\ modelCache.validModels # {}
    /\ now - modelCache.lastFetched < MODEL_VALIDATION_CACHE_TTL_MS

\* the step in which an isValidModel call arrives
C40_Arrives == Len(callers') = Len(callers) + 1

\* the step in which the refresh in flight settles
C40_Settles == inFlight # {} /\ inFlight' = {}

\* the step in which the refresh in flight settles by throwing
C40_Fails ==
    /\ C40_Settles
    /\ \E c \in DOMAIN callers :
          callers[c].pc = "awaiting" /\ callers'[c].refreshFailed

\* the step in which call c returns
C40_Returns(c) ==
    /\ c \in DOMAIN callers
    /\ callers[c].pc = "resumed"
    /\ callers'[c].pc = "done"

\* C40: every refresh started by populateModelCache ends, whether it succeeds
\* or fails, and when it ends fetchPromise is null again and every call that
\* awaited it resumes and returns; with fetchPromise null a call that finds
\* the cache empty or stale starts a new refresh; a failed refresh leaves
\* validModels and lastFetched as they were; and a call that arrives while
\* the cache is non-empty and younger than the TTL starts no upstream call,
\* awaits nothing, and answers whether its model id is in validModels.
C40_NeverStuck ==
    /\ [](inFlight = {} => modelCache.fetchPromise = 0)
    /\ [][C40_Settles =>
            /\ modelCache'.fetchPromise = 0
            /\ \A c \in DOMAIN callers :
                  callers[c].pc = "awaiting" => callers'[c].pc = "resumed"]_vars
    /\ inFlight # {} ~> (inFlight = {} /\ modelCache.fetchPromise = 0)
    /\ \A c \in Callers :
          (c \in DOMAIN callers /\ callers[c].pc = "awaiting")
              ~> (c \in DOMAIN callers /\ callers[c].pc = "done")
    /\ [][(C40_Arrives /\ modelCache.fetchPromise = 0 /\ ~C40_Fresh) =>
            /\ fetches' = fetches + 1
            /\ inFlight' = {fetches'}
            /\ modelCache'.fetchPromise = fetches']_vars
    /\ [][C40_Fails =>
            /\ modelCache'.validModels = modelCache.validModels
            /\ modelCache'.lastFetched = modelCache.lastFetched]_vars
    /\ [][(C40_Arrives /\ C40_Fresh) =>
            /\ fetches' = fetches
            /\ inFlight' = inFlight
            /\ modelCache' = modelCache
            /\ callers'[Len(callers')].pc = "resumed"]_vars
    /\ [][\A c \in Callers :
            (C40_Returns(c) /\ callers[c].awaiting = 0) =>
                /\ modelCache.validModels # {}
                /\ callers'[c].valid
                       <=> callers[c].modelId \in modelCache.validModels]_vars

\* a refresh failed and its caller returned, the cache being empty, and a
\* later call has started a second refresh
C40_Witness ==
    /\ Len(callers) = 2
    /\ callers[1].pc = "done"
    /\ callers[1].refreshFailed
    /\ modelCache.validModels = {}
    /\ callers[2].pc = "awaiting"
    /\ fetches = 2
    /\ inFlight = {2}
    /\ modelCache.fetchPromise = 2

\* a call answered from the fresh cache, with no second fetch, that its
\* model is not valid
C40_WitnessFresh ==
    /\ Len(callers) = 2
    /\ callers[2].pc = "done"
    /\ callers[2].awaiting = 0
    /\ ~callers[2].valid
    /\ fetches = 1

====
